---- MODULE Spec2Model ----
(***************************************************************************)
(* A model of the k8s-eip-operator controller (src/src/main.rs): the Eip   *)
(* and Pod reconcilers, the orphan sweep, and the cluster and cloud state  *)
(* they act on.  Every handler is one atomic action; the parameter f of a  *)
(* handler names the one external call of the run that fails (a transient  *)
(* cloud or API-server error), so a run can stop after any of its calls.   *)
(***************************************************************************)
EXTENDS Integers, Sequences, FiniteSets, TLC

(***************************************************************************)
(* Bounds of the model.                                                    *)
(***************************************************************************)
\* Eip objects created over one behaviour (uids are never reused).
MaxUid == 2
\* Cloud addresses allocated over one behaviour (allocation ids are never reused).
MaxAlloc == 2
\* Cloud addresses allocated out of band (manually, or by an older operator).
MaxExternal == 1
\* Instances of the v1 schema the migration finds.
MaxV1 == 2
\* How many times another writer updates an instance during the migration.
MaxEdits == 1
\* How many times the migration is run.
MaxPass == 2
\* How many times other writers change the finalizers of a pod during the sweep.
MaxFinalizerEdits == 2

(***************************************************************************)
(* Names.                                                                  *)
(***************************************************************************)
None == "none"
POD_FINALIZER_NAME == "eip.materialize.cloud/disassociate"
EIP_FINALIZER_NAME == "eip.materialize.cloud/destroy"
LEGACY_POD_FINALIZER_NAME == "eip.aws.materialize.com/disassociate"

\* The cluster this controller runs in (CLUSTER_NAME).
ClusterName == "C"
Namespaces == {"ns1", "ns2"}
\* The namespace the model's pods live in.
PodNamespace == "ns1"
PodNames == {"p1"}
\* The order in which the API server lists pods.
PodNameOrder == <<"p1">>
\* Pod names an Eip's spec may carry: the model's pod and one that never runs.
SpecPodNames == {"p1", "p2"}
\* Names of Eips created by a user; an autocreated Eip is named after its pod.
\* The sequence is the order in which the API server lists objects.
EipNameOrder == <<"e1", "p1">>
UserEipNames == {"e1"}
PodIps == {"ip1", "ip2"}

Uids == 1..MaxUid
AllocIds == 1..MaxAlloc

Range(s) == {s[i] : i \in DOMAIN s}

VARIABLES
    eips,          \* uid -> the Eip object with that uid, or NoEip
    pods,          \* pod name -> the Pod object, or NoPod
    addrs,         \* allocation id -> the cloud address, or NoAddr
    nUid,          \* uids handed out so far
    nAlloc,        \* allocation ids handed out so far
    nExternal,     \* addresses allocated out of band so far
    cfgNamespace,  \* the NAMESPACE environment variable, or None
    last,          \* the last handler run: its result, cloud calls and cluster writes
    upgrade,       \* the migration of v1 instances: what it found and what it did
    sweep,         \* the removal of legacy finalizers: the pods listed and how far it is
    matching       \* the selector engine: an Eip, the nodes, and the last question asked

vars == <<eips, pods, addrs, nUid, nAlloc, nExternal, cfgNamespace, last, upgrade, sweep, matching>>

(***************************************************************************)
(* Objects.                                                                *)
(***************************************************************************)
NoEip == [live |-> FALSE]
NoPod == [live |-> FALSE]
NoAddr == [live |-> FALSE]

\* Option<EipStatus> with its four optional fields; allocation ids and public
\* IPs are numbers (0: unset), ENIs and private IPs are strings (None: unset).
NoStatus ==
    [present |-> FALSE, allocation_id |-> 0, public_ip_address |-> 0,
     eni |-> None, private_ip_address |-> None]

NewEip(ns, name, podName, uid) ==
    [live |-> TRUE, ns |-> ns, name |-> name, pod_name |-> podName, uid |-> uid,
     finalizers |-> <<>>, deleting |-> FALSE, status |-> NoStatus]

\* The public IP the cloud hands out with allocation a.
PublicIpOf(a) == 50 + a

\* The world a handler reads and writes.
World ==
    [eips |-> eips, pods |-> pods, addrs |-> addrs, nUid |-> nUid, nAlloc |-> nAlloc]

LiveEips(w) == {u \in Uids : w.eips[u].live}
LiveAddrs(w) == {a \in AllocIds : w.addrs[a].live}

(***************************************************************************)
(* A handler run: the world so far, the cloud calls and the cluster writes *)
(* issued so far.                                                          *)
(***************************************************************************)
NoFault == <<"none", 0>>
Fails(f, kind, target) == f = <<kind, target>>

\* err is None while the run goes on, and the error that ended it afterwards:
\* every step below leaves a run that has ended as it is (the `?` operator).
Ctx(w) == [w |-> w, calls |-> <<>>, writes |-> <<>>, err |-> None, ev |-> None]
Call(c, call) == [c EXCEPT !.calls = Append(@, call)]
CallW(c, call, w2) == [c EXCEPT !.calls = Append(@, call), !.w = w2]
CallErr(c, call, e) == [c EXCEPT !.calls = Append(@, call), !.err = e]
WriteW(c, wr, w2) == [c EXCEPT !.writes = Append(@, wr), !.w = w2]
WriteErr(c, wr, e) == [c EXCEPT !.writes = Append(@, wr), !.err = e]
Err(c, e) == [c EXCEPT !.err = e]
Ok(c) == c.err = None
Event(c, ev) == [c EXCEPT !.ev = ev]
\* The error of a run that would pass a bound of the model; no action takes it.
OutOfBound == "out of bound"

\* Step(x), with x evaluated once: the next statement of a handler runs on the
\* outcome of the statements before it.
Then(x, Step(_)) == CHOOSE r \in {Step(v) : v \in {x}} : TRUE

\* A cluster write: its kind, the namespace and name of the object written, and
\* the values of the payload (numbers n1, n2 and strings s1, s2).
Wr(kind, ns, name, n1, n2, s1, s2) ==
    [kind |-> kind, ns |-> ns, name |-> name, n1 |-> n1, n2 |-> n2, s1 |-> s1, s2 |-> s2]

\* The elements of a set of numbers in ascending order.
RECURSIVE SortedSeq(_)
SortedSeq(S) ==
    IF S = {} THEN <<>>
    ELSE LET m == CHOOSE x \in S : \A y \in S : x <= y
         IN <<m>> \o SortedSeq(S \ {m})

(***************************************************************************)
(* The cloud adapter (module eip of main.rs, line 43).  An address is      *)
(* identified by its allocation id; its association id, present while it   *)
(* is bound to an (ENI, private IP) pair, is modelled by the allocation id.*)
(***************************************************************************)
EIP_UID_TAG == "uid"
CLUSTER_NAME_TAG == "cluster"
LEGACY_CLUSTER_NAME_TAG == "legacy"
NAMESPACE_TAG == "ns"

NewAddr(tags) == [live |-> TRUE, tags |-> tags, eni |-> None, private_ip |-> None]

\* tag(address, key): 0 or None stands for a tag that is missing.
get_tag_from_address(address, key) == address.tags[key]

\* describe_by_tag(key, value): the allocation ids of the addresses that carry it.
describe_addresses_with_tag_value(w, key, value) ==
    {a \in LiveAddrs(w) : get_tag_from_address(w.addrs[a], key) = value}

\* describe_by_allocation_id(id): the address exists (the cloud answers
\* InvalidAllocationID.NotFound otherwise).
describe_address(w, a) == a \in LiveAddrs(w)

\* allocate(tags): a fresh address carrying the full tag set.
allocate_address(w, eip_uid, cluster_name, namespace) ==
    LET a == w.nAlloc + 1
    IN [w EXCEPT !.addrs[a] =
                     NewAddr([cluster |-> cluster_name, legacy |-> None,
                              uid |-> eip_uid, ns |-> namespace]),
                 !.nAlloc = a]

\* associate(allocation_id, eni, private_ip) with allow_reassociation: replaces
\* any prior binding of the address.
associate_eip_with_pod_eni(w, a, eni_id, pod_ip) ==
    IF a \in LiveAddrs(w)
    THEN [w EXCEPT !.addrs[a].eni = eni_id, !.addrs[a].private_ip = pod_ip]
    ELSE w

\* disassociate(association_id): already disassociated is a success.
disassociate_eip(w, a) ==
    IF a \in LiveAddrs(w)
    THEN [w EXCEPT !.addrs[a].eni = None, !.addrs[a].private_ip = None]
    ELSE w

\* release(allocation_id): already released is a success.
release_address(w, a) ==
    IF a \in LiveAddrs(w) THEN [w EXCEPT !.addrs[a] = NoAddr] ELSE w

\* disassociate_and_release(address): address is the record as it was described;
\* disassociates when that record carries an association id, then releases.
disassociate_and_release_address(c, a, address, f) ==
    LET Disassociate(c0) ==
            IF ~Ok(c0) \/ address.eni = None THEN c0
            ELSE IF Fails(f, "disassociate", a)
                 THEN CallErr(c0, <<"disassociate", a>>, "AwsDisassociateAddress")
                 ELSE CallW(c0, <<"disassociate", a>>, disassociate_eip(c0.w, a))
        Release(c1) ==
            IF ~Ok(c1) THEN c1
            ELSE IF Fails(f, "release", a)
                 THEN CallErr(c1, <<"release", a>>, "AwsReleaseAddress")
                 ELSE CallW(c1, <<"release", a>>, release_address(c1.w, a))
    IN Then(Then(c, Disassociate), Release)

\* disassociate_and_release of every address of seq in turn, each as snapshot
\* w0 described it; the first error ends the loop.
RECURSIVE ReleaseEach(_, _, _, _)
ReleaseEach(c, seq, w0, f) ==
    LET Rest(c1) == ReleaseEach(c1, Tail(seq), w0, f)
    IN IF seq = <<>> \/ ~Ok(c) THEN c
       ELSE Then(disassociate_and_release_address(c, Head(seq), w0.addrs[Head(seq)], f), Rest)


(***************************************************************************)
(* The cluster adapter: Eip objects.                                       *)
(***************************************************************************)
\* The uid of the live Eip with that namespace and name, or 0.
EipByName(w, ns, name) ==
    IF \E u \in LiveEips(w) : w.eips[u].ns = ns /\ w.eips[u].name = name
    THEN CHOOSE u \in LiveEips(w) : w.eips[u].ns = ns /\ w.eips[u].name = name
    ELSE 0

\* The index of the first element of seq equal to x, or 0.
Position(seq, x) ==
    IF \E i \in DOMAIN seq : seq[i] = x
    THEN CHOOSE i \in DOMAIN seq : seq[i] = x /\ \A j \in 1..(i - 1) : seq[j] # x
    ELSE 0

RemoveAt(seq, i) == SubSeq(seq, 1, i - 1) \o SubSeq(seq, i + 1, Len(seq))

\* The API server drops an object that is being deleted once its last finalizer
\* is gone.
SettleEip(eip) == IF eip.deleting /\ eip.finalizers = <<>> THEN NoEip ELSE eip

\* A variant that replaces the whole status.
MergeStatusCreatedReplacing(status, allocation_id, public_ip_address) ==
    [present |-> TRUE, allocation_id |-> allocation_id,
     public_ip_address |-> public_ip_address, eni |-> None, private_ip_address |-> None]

\* A variant that leaves an allocation id the status already holds.
MergeStatusCreatedKeeping(status, allocation_id, public_ip_address) ==
    IF status.allocation_id # 0 THEN status
    ELSE [status EXCEPT !.present = TRUE, !.allocation_id = allocation_id,
                        !.public_ip_address = public_ip_address]

\* A merge patch of the status subresource: the named fields are replaced, the
\* others kept (a missing status counts as all fields unset).
MergeStatusCreated(status, allocation_id, public_ip_address) ==
    [status EXCEPT !.present = TRUE, !.allocation_id = allocation_id,
                   !.public_ip_address = public_ip_address]

set_eip_status_created(c, ns, eip_name, allocation_id, public_ip_address, f) ==
    LET u == EipByName(c.w, ns, eip_name)
        wr == Wr("status_created", ns, eip_name, allocation_id, public_ip_address, None, None)
    IN IF ~Ok(c) THEN c
       ELSE IF Fails(f, "patch_status", 0) \/ u = 0 THEN WriteErr(c, wr, "Kube")
       ELSE WriteW(c, wr,
                   [c.w EXCEPT !.eips[u].status =
                        MergeStatusCreated(@, allocation_id, public_ip_address)])

(***************************************************************************)
(* The Eip reconciler.                                                     *)
(***************************************************************************)
\* Two variants of tagged_case the properties of apply_eip tell from the code's:
\* one that allocates beside a single tagged address, one that adopts whatever
\* it finds.
tagged_case_no_adopt(n) == IF n <= 1 THEN "allocate" ELSE "multiple"
tagged_case_adopts_many(n) == IF n = 0 THEN "allocate" ELSE "adopt"

\* match addresses.len(): 0 allocates, 1 adopts, more is an error.
tagged_case(n) == IF n = 0 THEN "allocate" ELSE IF n = 1 THEN "adopt" ELSE "multiple"

apply_eip(c, u, cluster_name, namespace, f) ==
    LET eip == c.w.eips[u]
        addresses == describe_addresses_with_tag_value(c.w, EIP_UID_TAG, eip.uid)
        what == tagged_case(Cardinality(addresses))
        Describe(c0) ==
            IF Fails(f, "describe_addresses", 0)
            THEN CallErr(c0, <<"describe_addresses", eip.uid>>, "AwsDescribeAddresses")
            ELSE Call(c0, <<"describe_addresses", eip.uid>>)
        Match(c1) ==
            IF ~Ok(c1) THEN c1
            ELSE IF what = "multiple" THEN Err(c1, "MultipleEipsTaggedForPod")
            ELSE IF what = "adopt" THEN c1
            ELSE IF c1.w.nAlloc >= MaxAlloc THEN Err(c1, OutOfBound)
            ELSE IF Fails(f, "allocate", 0)
                 THEN CallErr(c1, <<"allocate", 0>>, "AllocateAddress")
                 ELSE CallW(c1, <<"allocate", c1.w.nAlloc + 1>>,
                            allocate_address(c1.w, eip.uid, cluster_name, namespace))
        SetStatus(c2) ==
            LET allocation_id == IF what = "adopt" THEN CHOOSE a \in addresses : TRUE
                                 ELSE c2.w.nAlloc
            IN IF ~Ok(c2) THEN c2
               ELSE set_eip_status_created(c2, namespace, eip.name, allocation_id,
                                           PublicIpOf(allocation_id), f)
    IN Then(Then(Then(c, Describe), Match), SetStatus)

cleanup_eip(c, u, f) ==
    LET eip == c.w.eips[u]
        addresses == describe_addresses_with_tag_value(c.w, EIP_UID_TAG, eip.uid)
    IN IF Fails(f, "describe_addresses", 0)
       THEN CallErr(c, <<"describe_addresses", eip.uid>>, "AwsDescribeAddresses")
       ELSE ReleaseEach(Call(c, <<"describe_addresses", eip.uid>>),
                        SortedSeq(addresses), c.w, f)

\* kube_runtime's finalizer(): the patch that adds the finalizer, and the
\* test-then-remove patch that takes it away at the index it was seen at.
AddEipFinalizer(c, u, f) ==
    LET eip == c.w.eips[u]
        wr == Wr("add_finalizer", eip.ns, eip.name, 0, 0, EIP_FINALIZER_NAME, None)
    IN IF Fails(f, "patch_finalizer", 0) THEN WriteErr(c, wr, "AddFinalizer")
       ELSE WriteW(c, wr,
                   [c.w EXCEPT !.eips[u].finalizers = Append(@, EIP_FINALIZER_NAME)])

\* A variant that takes the finalizer away whatever the cleanup returned.
RemoveEipFinalizerUnchecked(c, u, i, f) ==
    [c EXCEPT !.w.eips[u] = SettleEip([@ EXCEPT !.finalizers = RemoveAt(@, i)])]

RemoveEipFinalizer(c, u, i, f) ==
    LET eip == c.w.eips[u]
        wr == Wr("remove_finalizer", eip.ns, eip.name, i, 0, EIP_FINALIZER_NAME, None)
    IN IF ~Ok(c) THEN c
       ELSE IF Fails(f, "patch_finalizer", 0) THEN WriteErr(c, wr, "RemoveFinalizer")
       ELSE WriteW(c, wr,
                   [c.w EXCEPT !.eips[u] =
                        SettleEip([eip EXCEPT !.finalizers = RemoveAt(@, i)])])

\* A variant that applies an Eip that does not carry the finalizer yet.
reconcile_eip_applies_first(w, u, cluster_name, f) ==
    LET eip == w.eips[u]
        i == Position(eip.finalizers, EIP_FINALIZER_NAME)
    IN IF ~eip.deleting
       THEN apply_eip(Event(Ctx(w), "apply_eip"), u, cluster_name, eip.ns, f)
       ELSE IF i # 0
       THEN LET Remove(c) == RemoveEipFinalizer(c, u, i, f)
            IN Then(cleanup_eip(Event(Ctx(w), "cleanup_eip"), u, f), Remove)
       ELSE Event(Ctx(w), "nothing")

reconcile_eip(w, u, cluster_name, f) ==
    LET eip == w.eips[u]
        i == Position(eip.finalizers, EIP_FINALIZER_NAME)
    IN IF i # 0 /\ ~eip.deleting
       THEN apply_eip(Event(Ctx(w), "apply_eip"), u, cluster_name, eip.ns, f)
       ELSE IF i # 0
       THEN LET Remove(c) == RemoveEipFinalizer(c, u, i, f)
            IN Then(cleanup_eip(Event(Ctx(w), "cleanup_eip"), u, f), Remove)
       ELSE IF ~eip.deleting
       THEN AddEipFinalizer(Event(Ctx(w), "add_eip_finalizer"), u, f)
       ELSE Event(Ctx(w), "nothing")

\* The quota report reads the addresses of the account and the quota; it
\* changes nothing, and its own error is dropped.
report_eip_quota_status(c) == Call(c, <<"describe_all_addresses", 0>>)

\* The Eip controller's stream: a reconcile, then the quota report when the
\* reconcile succeeded.
eip_controller(w, u, cluster_name, f) ==
    LET PostHook(c) == IF Ok(c) THEN report_eip_quota_status(c) ELSE c
    IN Then(reconcile_eip(w, u, cluster_name, f), PostHook)


(***************************************************************************)
(* Pods and nodes.                                                         *)
(***************************************************************************)
\* The vpc.amazonaws.com/pod-eni annotation: present or not, whether its text
\* parses as a list of ENI descriptions, and the eniIds of that list.
EniAnnotation(present, parses, enis) ==
    [present |-> present, parses |-> parses, enis |-> enis]
NoEniAnnotation == EniAnnotation(FALSE, FALSE, <<>>)

\* The pods a user creates: the manage labels, the value of the autocreate
\* label (None: no label), the pod-eni annotation, the finalizers it starts with.
PodKind(manage, legacy_manage, autocreate, ann, finalizers) ==
    [manage |-> manage, legacy_manage |-> legacy_manage, autocreate |-> autocreate,
     eni_annotation |-> ann, finalizers |-> finalizers]
PodKinds ==
    { PodKind(TRUE, FALSE, "true", NoEniAnnotation, <<>>),
      PodKind(TRUE, FALSE, None, EniAnnotation(TRUE, TRUE, <<"eniP", "eniQ">>), <<>>),
      PodKind(TRUE, FALSE, "TRUE", EniAnnotation(TRUE, FALSE, <<>>), <<>>),
      PodKind(TRUE, FALSE, "false", EniAnnotation(TRUE, TRUE, <<>>), <<>>) }
\* The finalizers a pod under the legacy manage label can start with.
LegacyFinalizerLists ==
    { <<"other/finalizer", LEGACY_POD_FINALIZER_NAME>>,
      <<LEGACY_POD_FINALIZER_NAME>>,
      <<LEGACY_POD_FINALIZER_NAME, "other/finalizer">>,
      <<"other/finalizer">> }
\* A pod of the operator's older version: the legacy manage label and the
\* legacy finalizer, behind a finalizer of another controller.
LegacyPodKind ==
    PodKind(FALSE, TRUE, None, NoEniAnnotation, <<"other/finalizer", LEGACY_POD_FINALIZER_NAME>>)

NewPod(name, kind) ==
    [live |-> TRUE, ns |-> PodNamespace, name |-> name, manage |-> kind.manage,
     legacy_manage |-> kind.legacy_manage, autocreate |-> kind.autocreate,
     eni_annotation |-> kind.eni_annotation, finalizers |-> kind.finalizers,
     deleting |-> FALSE, node_name |-> None, pod_ip |-> None,
     ann_allocation_id |-> 0, ann_dns_target |-> 0]

SettlePod(pod) == IF pod.deleting /\ pod.finalizers = <<>> THEN NoPod ELSE pod

\* The node the pods run on: its provider id, as the segments between '/'.
NodeName == "n1"
ProviderId(node_name) == <<"aws:", "", "", "us-east-1a", "i-1">>
\* provider_id.rsplit_once('/'): the text after the last '/', None without a '/'.
InstanceIdOf(provider_id) ==
    IF Len(provider_id) < 2 THEN None ELSE provider_id[Len(provider_id)]

\* describe_instances: the network interfaces of an instance, each with its
\* private IPs.
NetworkInterfaces(instance_id) ==
    IF instance_id = "i-1"
    THEN << [id |-> "eniA", ips |-> <<"ip0", "ip1">>], [id |-> "eniB", ips |-> <<"ip9">>] >>
    ELSE <<>>

\* to_lowercase of a label value.
ToLower(v) == IF v \in {"true", "TRUE", "True"} THEN "true" ELSE v

should_autocreate_eip(pod) ==
    ToLower(IF pod.autocreate = None THEN "false" ELSE pod.autocreate) = "true"

\* A variant that takes the last entry of the annotation.
get_eni_id_from_annotation_last(pod) ==
    LET ann == pod.eni_annotation
    IN IF ~ann.present THEN None
       ELSE IF ~ann.parses THEN None
       ELSE IF ann.enis = <<>> THEN None
       ELSE ann.enis[Len(ann.enis)]

get_eni_id_from_annotation(pod) ==
    LET ann == pod.eni_annotation
    IN IF ~ann.present THEN None
       ELSE IF ~ann.parses THEN None
       ELSE IF ann.enis = <<>> THEN None
       ELSE ann.enis[1]

\* find_map over the network interfaces: the id of the first one that has
\* pod_ip among its private IPs, None when there is none.
FindInterface(nics, pod_ip) ==
    LET hits == {i \in DOMAIN nics : pod_ip \in Range(nics[i].ips)}
    IN IF hits = {} THEN None
       ELSE nics[CHOOSE i \in hits : \A j \in hits : i <= j].id

(***************************************************************************)
(* The cluster adapter: lists and writes the pod reconciler uses.          *)
(***************************************************************************)
\* eip_api.list of a namespaced Api: the uids of the Eips of ns, in the order
\* the API server lists them.
RECURSIVE ListByName(_, _, _)
ListByName(w, ns, names) ==
    IF names = <<>> THEN <<>>
    ELSE LET u == EipByName(w, ns, Head(names))
         IN (IF u = 0 THEN <<>> ELSE <<u>>) \o ListByName(w, ns, Tail(names))
ListEips(w, ns) == ListByName(w, ns, EipNameOrder)

\* all_eips.into_iter().find(|eip| eip.spec.pod_name == pod_name): 0 for None.
FindEipForPod(w, listed, pod_name) ==
    LET hits == {i \in DOMAIN listed : w.eips[listed[i]].pod_name = pod_name}
    IN IF hits = {} THEN 0 ELSE listed[CHOOSE i \in hits : \A j \in hits : i <= j]

\* A variant that creates an Eip whether or not one of that name exists.
create_k8s_eip_always_new(c, ns, pod_name, f) ==
    IF ~Ok(c) THEN c
    ELSE IF c.w.nUid >= MaxUid THEN Err(c, OutOfBound)
    ELSE WriteW(c, Wr("apply_eip", ns, pod_name, 0, 0, pod_name, None),
                [c.w EXCEPT !.eips[c.w.nUid + 1] =
                                NewEip(ns, pod_name, pod_name, c.w.nUid + 1),
                            !.nUid = c.w.nUid + 1])

\* A variant that forces the apply over a spec another writer has set.
create_k8s_eip_forced(c, ns, pod_name, f) ==
    LET u == EipByName(c.w, ns, pod_name)
        wr == Wr("apply_eip", ns, pod_name, 0, 0, pod_name, None)
    IN IF ~Ok(c) THEN c
       ELSE IF u # 0 THEN WriteW(c, wr, [c.w EXCEPT !.eips[u].pod_name = pod_name])
       ELSE IF c.w.nUid >= MaxUid THEN Err(c, OutOfBound)
       ELSE WriteW(c, wr,
                   [c.w EXCEPT !.eips[c.w.nUid + 1] =
                                   NewEip(ns, pod_name, pod_name, c.w.nUid + 1),
                               !.nUid = c.w.nUid + 1])

\* Server-side apply of Eip::new(pod_name, EipSpec { pod_name }): creates the
\* Eip, or leaves an Eip that already has this spec as it is; without force,
\* a spec another writer has set to another value is a conflict.
create_k8s_eip(c, ns, pod_name, f) ==
    LET u == EipByName(c.w, ns, pod_name)
        wr == Wr("apply_eip", ns, pod_name, 0, 0, pod_name, None)
    IN IF ~Ok(c) THEN c
       ELSE IF Fails(f, "apply_eip", 0) THEN WriteErr(c, wr, "Kube")
       ELSE IF u # 0
            THEN (IF c.w.eips[u].pod_name = pod_name THEN WriteW(c, wr, c.w)
                  ELSE WriteErr(c, wr, "Kube"))
       ELSE IF c.w.nUid >= MaxUid THEN Err(c, OutOfBound)
       ELSE WriteW(c, wr,
                   [c.w EXCEPT !.eips[c.w.nUid + 1] =
                                   NewEip(ns, pod_name, pod_name, c.w.nUid + 1),
                               !.nUid = c.w.nUid + 1])

\* eip_api.delete, a 404 counting as success.
delete_k8s_eip(c, ns, name, f) ==
    LET u == EipByName(c.w, ns, name)
        wr == Wr("delete_eip", ns, name, 0, 0, None, None)
    IN IF ~Ok(c) THEN c
       ELSE IF Fails(f, "delete_eip", 0) THEN WriteErr(c, wr, "Kube")
       ELSE IF u = 0 THEN WriteW(c, wr, c.w)
       ELSE WriteW(c, wr,
                   [c.w EXCEPT !.eips[u] = SettleEip([@ EXCEPT !.deleting = TRUE])])

MergeStatusAttached(status, eni, private_ip_address) ==
    [status EXCEPT !.present = TRUE, !.eni = eni,
                   !.private_ip_address = private_ip_address]

set_eip_status_attached(c, ns, eip_name, eni, private_ip_address, f) ==
    LET u == EipByName(c.w, ns, eip_name)
        wr == Wr("status_attached", ns, eip_name, 0, 0, eni, private_ip_address)
    IN IF ~Ok(c) THEN c
       ELSE IF Fails(f, "patch_status", 0) \/ u = 0 THEN WriteErr(c, wr, "Kube")
       ELSE WriteW(c, wr,
                   [c.w EXCEPT !.eips[u].status =
                        MergeStatusAttached(@, eni, private_ip_address)])

\* A variant that clears eni and keeps private_ip_address.
MergeStatusDetachedEniOnly(status) == [status EXCEPT !.present = TRUE, !.eni = None]

MergeStatusDetached(status) ==
    [status EXCEPT !.present = TRUE, !.eni = None, !.private_ip_address = None]

set_eip_status_detached(c, ns, eip_name, f) ==
    LET u == EipByName(c.w, ns, eip_name)
        wr == Wr("status_detached", ns, eip_name, 0, 0, None, None)
    IN IF ~Ok(c) THEN c
       ELSE IF Fails(f, "patch_status", 0) \/ u = 0 THEN WriteErr(c, wr, "Kube")
       ELSE WriteW(c, wr, [c.w EXCEPT !.eips[u].status = MergeStatusDetached(@)])

\* A variant that writes the allocation id as the DNS target.
add_dns_target_annotation_id_as_target(c, pod_name, eip_address, allocation_id, f) ==
    IF ~Ok(c) THEN c
    ELSE WriteW(c, Wr("annotate_pod", PodNamespace, pod_name, allocation_id, allocation_id,
                      None, None),
                [c.w EXCEPT !.pods[pod_name].ann_allocation_id = allocation_id,
                            !.pods[pod_name].ann_dns_target = allocation_id])

add_dns_target_annotation(c, pod_name, eip_address, allocation_id, f) ==
    LET wr == Wr("annotate_pod", PodNamespace, pod_name, allocation_id, eip_address, None, None)
    IN IF ~Ok(c) THEN c
       ELSE IF Fails(f, "patch_pod", 0) \/ ~c.w.pods[pod_name].live
            THEN WriteErr(c, wr, "Kube")
       ELSE WriteW(c, wr,
                   [c.w EXCEPT !.pods[pod_name].ann_allocation_id = allocation_id,
                               !.pods[pod_name].ann_dns_target = eip_address])


(***************************************************************************)
(* The pod reconciler.                                                     *)
(***************************************************************************)
\* Two variants of needs_associate: one that asks for both halves of the pair
\* to differ, one that always associates.  A third that never does follows.
needs_associate_never(address, eni_id, pod_ip) == FALSE
needs_associate_both_differ(address, eni_id, pod_ip) ==
    address.eni # eni_id /\ address.private_ip # pod_ip
needs_associate_always(address, eni_id, pod_ip) == TRUE

\* The address is bound to another (ENI, private IP) pair than the pod's, or
\* to none.
needs_associate(address, eni_id, pod_ip) ==
    address.eni # eni_id \/ address.private_ip # pod_ip

\* The first statements of apply_pod: the Eip of an autocreate pod.
apply_pod_autocreate(c, p, f) ==
    IF should_autocreate_eip(c.w.pods[p])
    THEN create_k8s_eip(c, c.w.pods[p].ns, p, f)
    ELSE c

\* The pod's IP, its node, the node's provider id and the instance id in it.
apply_pod_node(c, pod, f) ==
    IF ~Ok(c) THEN c
    ELSE IF pod.pod_ip = None THEN Err(c, "MissingPodIp")
    ELSE IF pod.node_name = None THEN Err(c, "MissingNodeName")
    ELSE IF Fails(f, "get_node", 0) THEN Err(c, "Kube")
    ELSE IF InstanceIdOf(ProviderId(pod.node_name)) = None THEN Err(c, "MalformedProviderId")
    ELSE c

\* The interface describe_instances finds for the pod's IP.
found_eni_id(pod) ==
    FindInterface(NetworkInterfaces(InstanceIdOf(ProviderId(pod.node_name))), pod.pod_ip)

\* let eni_id = match get_eni_id_from_annotation(&pod): the value.
resolved_eni_id(pod) ==
    IF get_eni_id_from_annotation(pod) # None
    THEN get_eni_id_from_annotation(pod)
    ELSE found_eni_id(pod)

\* The same match: the call it makes and the error it can end with.
apply_pod_eni(c, pod, f) ==
    IF ~Ok(c) \/ get_eni_id_from_annotation(pod) # None THEN c
    ELSE IF Fails(f, "describe_instances", 0)
         THEN CallErr(c, <<"describe_instances", 0>>, "AwsDescribeInstances")
    ELSE IF found_eni_id(pod) = None
         THEN CallErr(c, <<"describe_instances", 0>>, "NoInterfaceWithThatIp")
    ELSE Call(c, <<"describe_instances", 0>>)

\* The Eip of the pod among the listed ones (u, 0 for none), its allocation id
\* and the address read for it.
apply_pod_eip(c, u, f) ==
    IF ~Ok(c) THEN c
    ELSE IF Fails(f, "list_eips", 0) THEN Err(c, "Kube")
    ELSE IF u = 0 THEN Err(c, "NoEipResourceWithThatPodName")
    ELSE IF ~c.w.eips[u].status.present THEN Err(c, "MissingEipStatus")
    ELSE IF c.w.eips[u].status.allocation_id = 0 THEN Err(c, "MissingAllocationId")
    ELSE IF Fails(f, "describe_address", 0)
            \/ ~describe_address(c.w, c.w.eips[u].status.allocation_id)
         THEN CallErr(c, <<"describe_address", c.w.eips[u].status.allocation_id>>,
                      "AwsDescribeAddresses")
    ELSE Call(c, <<"describe_address", c.w.eips[u].status.allocation_id>>)

\* associate, when the address read is not bound to the pod's pair.
apply_pod_associate(c, allocation_id, eni_id, pod_ip, f) ==
    IF ~Ok(c) THEN c
    ELSE IF ~needs_associate(c.w.addrs[allocation_id], eni_id, pod_ip) THEN c
    ELSE IF Fails(f, "associate", 0)
         THEN CallErr(c, <<"associate", allocation_id>>, "AwsAssociateAddress")
    ELSE CallW(c, <<"associate", allocation_id>>,
               associate_eip_with_pod_eni(c.w, allocation_id, eni_id, pod_ip))

\* The association, the status write and the annotations that end apply_pod.
apply_pod_attach(c, p, eip, eni_id, pod_ip, f) ==
    LET Associate(c1) == apply_pod_associate(c1, eip.status.allocation_id, eni_id, pod_ip, f)
        SetStatus(c1) == set_eip_status_attached(c1, eip.ns, eip.name, eni_id, pod_ip, f)
        Annotate(c1) ==
            add_dns_target_annotation(c1, p, PublicIpOf(eip.status.allocation_id),
                                      eip.status.allocation_id, f)
    IN IF ~Ok(c) THEN c
       ELSE Then(Then(Then(c, Associate), SetStatus), Annotate)

apply_pod(c0, p, f) ==
    LET pod == c0.w.pods[p]
        Autocreate(c) == apply_pod_autocreate(c, p, f)
        Node(c) == apply_pod_node(c, pod, f)
        Eni(c) == apply_pod_eni(c, pod, f)
        Attach(c) ==
            LET FoundEip(u) ==
                    LET EipAttach(c1) ==
                            apply_pod_attach(c1, p, c.w.eips[u], resolved_eni_id(pod),
                                             pod.pod_ip, f)
                    IN Then(apply_pod_eip(c, u, f), EipAttach)
            IN Then(FindEipForPod(c.w, ListEips(c.w, pod.ns), p), FoundEip)
    IN Then(Then(Then(Then(c0, Autocreate), Node), Eni), Attach)

\* A variant that asks the cloud for the address before it looks at the status.
cleanup_pod_describe_first(c, eip, f) ==
    IF ~eip.status.present \/ eip.status.allocation_id = 0
    THEN CallErr(c, <<"describe_address", 0>>, "AwsDescribeAddresses")
    ELSE IF Fails(f, "describe_address", 0) \/ ~describe_address(c.w, eip.status.allocation_id)
         THEN CallErr(c, <<"describe_address", eip.status.allocation_id>>,
                      "AwsDescribeAddresses")
    ELSE Call(c, <<"describe_address", eip.status.allocation_id>>)

\* The allocation id of the pod's Eip and the address read for it.
cleanup_pod_describe(c, eip, f) ==
    IF ~eip.status.present THEN Err(c, "MissingEipStatus")
    ELSE IF eip.status.allocation_id = 0 THEN Err(c, "MissingAllocationId")
    ELSE IF Fails(f, "describe_address", 0) \/ ~describe_address(c.w, eip.status.allocation_id)
         THEN CallErr(c, <<"describe_address", eip.status.allocation_id>>,
                      "AwsDescribeAddresses")
    ELSE Call(c, <<"describe_address", eip.status.allocation_id>>)

\* disassociate, when the address read carries an association id.
cleanup_pod_disassociate(c, allocation_id, f) ==
    IF ~Ok(c) THEN c
    ELSE IF c.w.addrs[allocation_id].eni = None THEN c
    ELSE IF Fails(f, "disassociate", allocation_id)
         THEN CallErr(c, <<"disassociate", allocation_id>>, "AwsDisassociateAddress")
    ELSE CallW(c, <<"disassociate", allocation_id>>, disassociate_eip(c.w, allocation_id))

\* if let Some(eip) = eip { ... }: the body.
cleanup_pod_detach(c, eip, f) ==
    LET Disassociate(c1) == cleanup_pod_disassociate(c1, eip.status.allocation_id, f)
        SetStatus(c1) == set_eip_status_detached(c1, eip.ns, eip.name, f)
    IN Then(Then(cleanup_pod_describe(c, eip, f), Disassociate), SetStatus)

\* A variant that leaves the Eip of an autocreate pod in place.
cleanup_pod_delete_never(c, p, f) == c

\* The delete of the Eip of an autocreate pod that ends cleanup_pod.
cleanup_pod_delete(c, p, f) ==
    IF ~Ok(c) THEN c
    ELSE IF should_autocreate_eip(c.w.pods[p]) THEN delete_k8s_eip(c, c.w.pods[p].ns, p, f)
    ELSE c

cleanup_pod(c0, p, f) ==
    LET Delete(c) == cleanup_pod_delete(c, p, f)
        FoundEip(u) ==
            IF Fails(f, "list_eips", 0) THEN Err(c0, "Kube")
            ELSE IF u = 0 THEN Delete(c0)
            ELSE Then(cleanup_pod_detach(c0, c0.w.eips[u], f), Delete)
    IN Then(FindEipForPod(c0.w, ListEips(c0.w, c0.w.pods[p].ns), p), FoundEip)

AddPodFinalizer(c, p, f) ==
    LET wr == Wr("add_finalizer", PodNamespace, p, 0, 0, POD_FINALIZER_NAME, None)
    IN IF Fails(f, "patch_finalizer", 0) THEN WriteErr(c, wr, "AddFinalizer")
       ELSE WriteW(c, wr,
                   [c.w EXCEPT !.pods[p].finalizers = Append(@, POD_FINALIZER_NAME)])

\* A variant that takes the finalizer away whatever the cleanup returned.
RemovePodFinalizerUnchecked(c, p, i, f) ==
    [c EXCEPT !.w.pods[p] = SettlePod([@ EXCEPT !.finalizers = RemoveAt(@, i)])]

RemovePodFinalizer(c, p, i, f) ==
    LET wr == Wr("remove_finalizer", PodNamespace, p, i, 0, POD_FINALIZER_NAME, None)
    IN IF ~Ok(c) THEN c
       ELSE IF Fails(f, "patch_finalizer", 0) THEN WriteErr(c, wr, "RemoveFinalizer")
       ELSE WriteW(c, wr,
                   [c.w EXCEPT !.pods[p] =
                        SettlePod([@ EXCEPT !.finalizers = RemoveAt(@, i)])])

reconcile_pod(w, p, f) ==
    LET pod == w.pods[p]
        i == Position(pod.finalizers, POD_FINALIZER_NAME)
    IN IF i # 0 /\ ~pod.deleting
       THEN apply_pod(Event(Ctx(w), "apply_pod"), p, f)
       ELSE IF i # 0
       THEN LET Remove(c) == RemovePodFinalizer(c, p, i, f)
            IN Then(cleanup_pod(Event(Ctx(w), "cleanup_pod"), p, f), Remove)
       ELSE IF ~pod.deleting
       THEN AddPodFinalizer(Event(Ctx(w), "add_pod_finalizer"), p, f)
       ELSE Event(Ctx(w), "nothing")


(***************************************************************************)
(* The orphan sweep.                                                       *)
(***************************************************************************)
\* describe_addresses filtered by the cluster-name tag and, when NAMESPACE is
\* set, by the namespace tag as well.
DescribeClusterAddresses(w, cluster_name, namespace) ==
    {a \in LiveAddrs(w) :
        /\ get_tag_from_address(w.addrs[a], CLUSTER_NAME_TAG) = cluster_name
        /\ namespace # None => get_tag_from_address(w.addrs[a], NAMESPACE_TAG) = namespace}

\* eip_api.list of the Api run() builds: namespaced when NAMESPACE is set, of
\* all namespaces otherwise.
SweepEipUids(w, namespace) ==
    {w.eips[u].uid : u \in {x \in LiveEips(w) : namespace = None \/ w.eips[x].ns = namespace}}

\* A variant that releases addresses without an eip-uid tag only.
is_orphan_untagged_only(address, eip_uids) ==
    get_tag_from_address(address, EIP_UID_TAG) = 0

\* A variant that takes every address found under the legacy key alone for
\* an orphan.
is_orphan_legacy_always(address, eip_uids) ==
    LET eip_uid == get_tag_from_address(address, EIP_UID_TAG)
    IN \/ eip_uid = 0
       \/ eip_uid \notin eip_uids
       \/ get_tag_from_address(address, CLUSTER_NAME_TAG) = None

\* The address has no eip-uid tag, or one that names no listed Eip.
is_orphan(address, eip_uids) ==
    LET eip_uid == get_tag_from_address(address, EIP_UID_TAG)
    IN eip_uid = 0 \/ eip_uid \notin eip_uids

\* The pods pod_api lists under the legacy manage label.
LegacyPods(w, namespace) ==
    LET Listed(p) == /\ w.pods[p].live
                     /\ w.pods[p].legacy_manage
                     /\ namespace = None \/ w.pods[p].ns = namespace
    IN SelectSeq(PodNameOrder, Listed)

\* The test-then-remove patch of the legacy finalizer at the index it was
\* listed at.
RemoveLegacyFinalizer(c, p, f) ==
    LET pod == c.w.pods[p]
        position == Position(pod.finalizers, LEGACY_POD_FINALIZER_NAME)
        wr == Wr("remove_finalizer", pod.ns, p, position, 0, LEGACY_POD_FINALIZER_NAME, None)
    IN IF ~Ok(c) \/ position = 0 THEN c
       ELSE IF Fails(f, "patch_finalizer", 0) THEN WriteErr(c, wr, "Kube")
       ELSE WriteW(c, wr,
                   [c.w EXCEPT !.pods[p] =
                        SettlePod([@ EXCEPT !.finalizers = RemoveAt(@, position)])])

RECURSIVE RemoveLegacyFinalizers(_, _, _)
RemoveLegacyFinalizers(c, ps, f) ==
    IF ps = <<>> \/ ~Ok(c) THEN c
    ELSE RemoveLegacyFinalizers(RemoveLegacyFinalizer(c, Head(ps), f), Tail(ps), f)

cleanup_orphan_eips(c0, cluster_name, namespace, f) ==
    LET w0 == c0.w
        current == DescribeClusterAddresses(w0, cluster_name, namespace)
        legacy == describe_addresses_with_tag_value(w0, LEGACY_CLUSTER_NAME_TAG, cluster_name)
        addresses == SortedSeq(current) \o SortedSeq(legacy)
        eip_uids == SweepEipUids(w0, namespace)
        Orphan(a) == is_orphan(w0.addrs[a], eip_uids)
        c1 == IF Fails(f, "describe_addresses", 0)
              THEN CallErr(c0, <<"describe_cluster_addresses", 0>>, "AwsDescribeAddresses")
              ELSE Call(c0, <<"describe_cluster_addresses", 0>>)
        c2 == IF ~Ok(c1) THEN c1
              ELSE IF Fails(f, "describe_legacy_addresses", 0)
                   THEN CallErr(c1, <<"describe_legacy_addresses", 0>>, "AwsDescribeAddresses")
              ELSE Call(c1, <<"describe_legacy_addresses", 0>>)
        c3 == IF ~Ok(c2) THEN c2
              ELSE IF Fails(f, "list_eips", 0) THEN Err(c2, "Kube")
              ELSE c2
        c4 == ReleaseEach(c3, SelectSeq(addresses, Orphan), w0, f)
        c5 == IF ~Ok(c4) THEN c4
              ELSE IF Fails(f, "list_pods", 0) THEN Err(c4, "Kube")
              ELSE c4
    IN RemoveLegacyFinalizers(c5, LegacyPods(w0, namespace), f)

\* The last part of cleanup_orphan_eips step by step: the list of the pods
\* under the legacy label, then one patch per pod, other writers acting on the
\* pods in between.  `sweep` before the list:
NotRun == "not run"
NoSweep == [res |-> NotRun, listed |-> <<>>, i |-> 0, status |-> 0, edits |-> 0]

\* pod_api.list(labels(LEGACY_MANAGE_EIP_LABEL)): the pods as they are listed.
ListLegacyPods(w, namespace) ==
    LET ps == LegacyPods(w, namespace)
    IN [k \in 1..Len(ps) |-> [name |-> ps[k], finalizers |-> w.pods[ps[k]].finalizers]]

\* A patch that removes the element at the index without testing it.
json_patch_remove_only(finalizers, position, value) ==
    IF position > Len(finalizers) THEN [ok |-> FALSE, finalizers |-> finalizers]
    ELSE [ok |-> TRUE, finalizers |-> RemoveAt(finalizers, position)]

\* The JSON patch [test /metadata/finalizers/<index> = value, remove
\* /metadata/finalizers/<index>] applied to the finalizers stored: it fails,
\* changing nothing, unless the element at the index is the value.  position
\* counts from 1.
json_patch_test_remove(finalizers, position, value) ==
    IF position > Len(finalizers) \/ finalizers[position] # value
    THEN [ok |-> FALSE, finalizers |-> finalizers]
    ELSE [ok |-> TRUE, finalizers |-> RemoveAt(finalizers, position)]

\* One iteration of the loop over legacy_pods, on listed[i], against the pods
\* as they are now.  The result: the sweep and the pods after it.
remove_legacy_finalizer(sw, ps, fails) ==
    IF sw.i > Len(sw.listed) THEN [sweep |-> [sw EXCEPT !.res = "ok"], pods |-> ps]
    ELSE LET pod == sw.listed[sw.i]
             position == Position(pod.finalizers, LEGACY_POD_FINALIZER_NAME)
         IN IF position = 0 THEN [sweep |-> [sw EXCEPT !.i = @ + 1], pods |-> ps]
            ELSE IF fails
                 THEN [sweep |-> [sw EXCEPT !.res = "Kube", !.status = 500], pods |-> ps]
            ELSE IF ~ps[pod.name].live
                 THEN [sweep |-> [sw EXCEPT !.res = "Kube", !.status = 404], pods |-> ps]
            ELSE LET patched == json_patch_test_remove(ps[pod.name].finalizers, position,
                                                       LEGACY_POD_FINALIZER_NAME)
                 IN IF ~patched.ok
                    THEN [sweep |-> [sw EXCEPT !.res = "Kube", !.status = 422], pods |-> ps]
                    ELSE [sweep |-> [sw EXCEPT !.i = @ + 1, !.status = 200],
                          pods |-> [ps EXCEPT ![pod.name] =
                                        SettlePod([@ EXCEPT !.finalizers = patched.finalizers])]]

(***************************************************************************)
(* The migration of v1 instances to v2 (eip_operator/src/eip.rs).          *)
(***************************************************************************)
\* What the metadata of an object holds beside name, namespace and resource
\* version: labels and annotations, as sets of key-value pairs, and finalizers.
NoMetadata == [labels |-> {}, annotations |-> {}, finalizers |-> <<>>]
SomeMetadata ==
    [labels |-> {<<"team", "net">>}, annotations |-> {<<"note", "static">>},
     finalizers |-> <<EIP_FINALIZER_NAME>>]
V1Metadata == {NoMetadata, SomeMetadata}

\* A v1 instance as the lax API lists it: metadata.name, metadata.namespace
\* and metadata.resource_version, and spec.pod_name, each of them optional,
\* and the rest of its metadata.
V1Instances ==
    {[name |-> name, namespace |-> namespace, resource_version |-> resource_version,
      pod_name |-> pod_name, labels |-> m.labels, annotations |-> m.annotations,
      finalizers |-> m.finalizers] :
        name \in {None, "e1", "e2"}, namespace \in {None, "ns1"},
        resource_version \in {None, "rv7"}, pod_name \in {None, "p1"}, m \in V1Metadata}

\* Eip::new(name, spec): an object whose metadata holds the name alone.
NewV2(name, selector) ==
    [name |-> name, selector |-> selector, resource_version |-> None,
     labels |-> {}, annotations |-> {}, finalizers |-> <<>>]

\* EipSelector::Pod { pod_name }.
PodSelector(pod_name) == [kind |-> "Pod", pod_name |-> pod_name]

\* A variant that takes an instance without a name for one that is not v1.
try_from_skips_nameless(eip_v1) ==
    IF eip_v1.pod_name # None /\ eip_v1.name # None
    THEN [ok |-> TRUE, err |-> None,
          eip |-> [NewV2(eip_v1.name, PodSelector(eip_v1.pod_name))
                       EXCEPT !.resource_version = eip_v1.resource_version]]
    ELSE [ok |-> FALSE, err |-> None, eip |-> None]

\* A variant that copies the metadata of the v1 instance.
try_from_cloning_metadata(eip_v1) ==
    IF eip_v1.pod_name # None
    THEN IF eip_v1.name = None
         THEN [ok |-> FALSE, err |-> "MissingEipName", eip |-> None]
         ELSE [ok |-> TRUE, err |-> None,
               eip |-> [NewV2(eip_v1.name, PodSelector(eip_v1.pod_name))
                            EXCEPT !.resource_version = eip_v1.resource_version,
                                   !.labels = eip_v1.labels,
                                   !.annotations = eip_v1.annotations,
                                   !.finalizers = eip_v1.finalizers]]
    ELSE [ok |-> FALSE, err |-> None, eip |-> None]

\* impl TryFrom<&v1::LaxEip> for v2::Eip: Ok(eip), Err(Some(error)) or
\* Err(None).
try_from(eip_v1) ==
    IF eip_v1.pod_name # None
    THEN IF eip_v1.name = None
         THEN [ok |-> FALSE, err |-> "MissingEipName", eip |-> None]
         ELSE [ok |-> TRUE, err |-> None,
               eip |-> [NewV2(eip_v1.name, PodSelector(eip_v1.pod_name))
                            EXCEPT !.resource_version = eip_v1.resource_version]]
    ELSE [ok |-> FALSE, err |-> None, eip |-> None]

\* v2::Eip::api(client, namespace): the namespace of the API an object is
\* replaced through.
ApiNamespace(namespace) == IF namespace = None THEN "default" ELSE namespace

\* The loop of upgrade_old_resources over the listed instances from index i
\* on; replaced holds the replace calls made so far, and fail_at is the index
\* of the instance whose replace call fails (0: none does).
RECURSIVE UpgradeFrom(_, _, _, _)
UpgradeFrom(listed, i, replaced, fail_at) ==
    IF i > Len(listed) THEN [res |-> "ok", replaced |-> replaced]
    ELSE LET converted == try_from(listed[i])
         IN IF converted.ok
            THEN IF fail_at = i THEN [res |-> "Kube", replaced |-> replaced]
                 ELSE UpgradeFrom(listed, i + 1,
                                  Append(replaced,
                                         [ns |-> ApiNamespace(listed[i].namespace),
                                          eip |-> converted.eip]),
                                  fail_at)
            ELSE IF converted.err # None THEN [res |-> converted.err, replaced |-> replaced]
            ELSE UpgradeFrom(listed, i + 1, replaced, fail_at)

upgrade_old_resources(listed, fail_at) == UpgradeFrom(listed, 1, <<>>, fail_at)

\* `upgrade` before the migration ran, and where no migration is modelled.
NoUpgrade == [listed |-> <<>>, res |-> NotRun, replaced |-> <<>>]

\* The migration against a cluster: the Eip custom objects the API server
\* stores, by namespace and name.  A stored object carries spec.podName when it
\* was written through v1, spec.selector when it was written through v2, its
\* resource version and the rest of its metadata.
MigNamespaces == {"default", "ns1"}
\* The names in the order a list returns them.
MigNames == <<"e1", "e2">>
MigKeys == MigNamespaces \X {MigNames[i] : i \in DOMAIN MigNames}
NoObject == [live |-> FALSE]
WrittenAsV1(pod_name, rv) ==
    [live |-> TRUE, pod_name |-> pod_name, selector |-> None, rv |-> rv,
     labels |-> {}, annotations |-> {}, finalizers |-> <<>>]
WrittenAsV2(selector, rv) ==
    [live |-> TRUE, pod_name |-> None, selector |-> selector, rv |-> rv,
     labels |-> {}, annotations |-> {}, finalizers |-> <<>>]
\* The object with the labels, annotations and finalizers of meta.
WithMetadata(object, meta) ==
    [object EXCEPT !.labels = meta.labels, !.annotations = meta.annotations,
                   !.finalizers = meta.finalizers]

\* v1::Eip::lax_api(client, namespace): the API of one namespace, "default"
\* when none is given.
lax_api(namespace) == IF namespace = None THEN "default" ELSE namespace

\* eip_v1_api.list(): the objects of the API's namespace as LaxEip, pod_name
\* absent where the stored spec has none.
LaxList(store, api_ns) ==
    LET Live(name) == store[<<api_ns, name>>].live
        names == SelectSeq(MigNames, Live)
    IN [i \in 1..Len(names) |->
           [name |-> names[i], namespace |-> api_ns,
            resource_version |-> store[<<api_ns, names[i]>>].rv,
            pod_name |-> store[<<api_ns, names[i]>>].pod_name,
            labels |-> store[<<api_ns, names[i]>>].labels,
            annotations |-> store[<<api_ns, names[i]>>].annotations,
            finalizers |-> store[<<api_ns, names[i]>>].finalizers]]

\* A replace that keeps what the stored spec held beside the selector.
replace_merging(store, api_ns, eip, fails) ==
    LET key == <<api_ns, eip.name>>
    IN IF fails THEN [status |-> 500, store |-> store]
       ELSE IF ~store[key].live THEN [status |-> 404, store |-> store]
       ELSE IF eip.resource_version # store[key].rv THEN [status |-> 409, store |-> store]
       ELSE [status |-> 200,
             store |-> [store EXCEPT ![key] = [@ EXCEPT !.selector = eip.selector,
                                                        !.rv = @ + 1]]]

\* A replace that does not compare resource versions.
replace_unconditional(store, api_ns, eip, fails) ==
    LET key == <<api_ns, eip.name>>
    IN IF fails THEN [status |-> 500, store |-> store]
       ELSE IF ~store[key].live THEN [status |-> 404, store |-> store]
       ELSE [status |-> 200,
             store |-> [store EXCEPT ![key] =
                                         WithMetadata(WrittenAsV2(eip.selector, @.rv + 1),
                                                      eip)]]

\* eip_api.replace(name, &PostParams::default(), &eip): the stored object
\* becomes the one sent, metadata included, under a new resource version, if
\* the resource version sent is the stored one; 409 Conflict otherwise, 404 if there is no such
\* object, and any call can fail.
replace(store, api_ns, eip, fails) ==
    LET key == <<api_ns, eip.name>>
    IN IF fails THEN [status |-> 500, store |-> store]
       ELSE IF ~store[key].live THEN [status |-> 404, store |-> store]
       ELSE IF eip.resource_version # store[key].rv THEN [status |-> 409, store |-> store]
       ELSE [status |-> 200,
             store |-> [store EXCEPT ![key] =
                                         WithMetadata(WrittenAsV2(eip.selector, @.rv + 1),
                                                      eip)]]

\* One iteration of the loop of upgrade_old_resources, on listed[i].
upgrade_one(m, fails) ==
    IF m.i > Len(m.listed) THEN [m EXCEPT !.res = "ok"]
    ELSE LET eip_v1 == m.listed[m.i]
             converted == try_from(eip_v1)
         IN IF converted.ok
            THEN LET api_ns == ApiNamespace(eip_v1.namespace)
                     done == replace(m.store, api_ns, converted.eip, fails)
                 IN IF done.status = 200
                    THEN [m EXCEPT !.store = done.store, !.status = 200, !.i = @ + 1,
                                   !.replaced = Append(@, [ns |-> api_ns,
                                                           eip |-> converted.eip])]
                    ELSE [m EXCEPT !.res = "Kube", !.status = done.status]
            ELSE IF converted.err # None THEN [m EXCEPT !.res = converted.err]
            ELSE [m EXCEPT !.i = @ + 1]

(***************************************************************************)
(* The selector engine of the v2 Eip (eip_operator/src/eip.rs).            *)
(***************************************************************************)
\* A BTreeMap<String, String> over the keys below: each key maps to a value,
\* or to None when the map does not hold it.  LabelKeys is the order a
\* BTreeMap iterates in.
LabelKeys == <<"k1", "k2">>
LabelValues == {"a", "b"}
LabelMaps == [Range(LabelKeys) -> LabelValues \cup {None}]
EmptyMap == [key \in Range(LabelKeys) |-> None]

\* EipSelector::Node { selector }.
NodeSelector(selector) == [kind |-> "Node", selector |-> selector]

\* A variant that compares with the name of the Eip's selector whatever its
\* kind.
matches_pod_any_kind(eip, pod_name) ==
    IF eip.selector.kind = "Pod" THEN pod_name = eip.selector.pod_name ELSE TRUE

\* v2::Eip::matches_pod.
matches_pod(eip, pod_name) ==
    IF eip.selector.kind = "Pod" THEN pod_name = eip.selector.pod_name ELSE FALSE

\* The loop of matches_node from the i-th key of the selector on.
RECURSIVE MatchesNodeFrom(_, _, _)
MatchesNodeFrom(selector, node_labels, i) ==
    IF i > Len(LabelKeys) THEN TRUE
    ELSE LET key == LabelKeys[i]
         IN IF selector[key] = None THEN MatchesNodeFrom(selector, node_labels, i + 1)
            ELSE IF node_labels[key] = None THEN FALSE
            ELSE IF selector[key] # node_labels[key] THEN FALSE
            ELSE MatchesNodeFrom(selector, node_labels, i + 1)

\* A variant that is content with the keys being present.
matches_node_keys_only(eip, node_labels) ==
    IF eip.selector.kind = "Node"
    THEN \A key \in Range(LabelKeys) :
            eip.selector.selector[key] # None => node_labels[key] # None
    ELSE FALSE

\* v2::Eip::matches_node.
matches_node(eip, node_labels) ==
    IF eip.selector.kind = "Node"
    THEN MatchesNodeFrom(eip.selector.selector, node_labels, 1)
    ELSE FALSE

\* The nodes of the cluster, in the lexicographic order of their names.
MatchNodeNames == <<"n-a", "n-b">>

\* The node an Eip with a Node selector is attached through: among the nodes
\* listed (in any order) whose labels the Eip matches, the one whose name is
\* lexicographically smallest; None when no node matches.
target_node(eip, nodes, listing) ==
    LET Matches(name) == matches_node(eip, nodes[name])
        hits == {i \in DOMAIN MatchNodeNames :
                    MatchNodeNames[i] \in Range(listing) /\ Matches(MatchNodeNames[i])}
    IN IF hits = {} THEN None
       ELSE MatchNodeNames[CHOOSE i \in hits : \A j \in hits : i <= j]

\* `matching` where the selector engine is not modelled.
NoMatching == [op |-> "none"]

(***************************************************************************)
(* The state machine.                                                      *)
(***************************************************************************)
\* The calls whose failure a run is checked against: the writes to the cluster
\* and the cloud calls that undo a binding.  A failing read, allocate or
\* associate ends the run where the errors the code itself raises do, with
\* nothing written since the previous call.
FaultKinds == {"apply_eip", "patch_status", "patch_finalizer", "delete_eip", "patch_pod"}
\* The faults that can touch a run of the Eip controller.
EipFaults ==
    {NoFault} \cup {<<k, 0>> : k \in {"patch_status", "patch_finalizer"}}
              \cup {<<k, a>> : k \in {"disassociate", "release"}, a \in AllocIds}
\* The faults that can touch a run of the pod controller.
PodFaults ==
    {NoFault} \cup {<<k, 0>> : k \in FaultKinds}
              \cup {<<"disassociate", a>> : a \in AllocIds}

\* The faults that can touch a run of the sweep.
SweepFaults ==
    {NoFault, <<"patch_finalizer", 0>>}
        \cup {<<k, a>> : k \in {"disassociate", "release"}, a \in AllocIds}

\* The requeue a run asks the controller for.  An apply that succeeds asks for
\* a steady-state requeue; a cleanup that succeeds, and finalizer() when it
\* only adds the finalizer, ask for none (the change of the object brings the
\* next reconcile); on_error asks for a backoff requeue after any error.
RequeueSteady == "after 240..360 s"
RequeueBackoff == "after 4000..8000 ms"
on_error == RequeueBackoff
requeue_after(c) ==
    IF c.ev \notin {"apply_pod", "apply_eip", "cleanup_pod", "cleanup_eip", "add_pod_finalizer",
                    "add_eip_finalizer", "nothing"}
    THEN None
    ELSE IF ~Ok(c) THEN on_error
    ELSE IF c.ev \in {"apply_pod", "apply_eip"} THEN RequeueSteady
    ELSE None

\* What `last` holds after a step of the environment.
EnvLast ==
    [ev |-> "env", pod |-> None, uid |-> 0, res |-> "ok", calls |-> <<>>, writes |-> <<>>,
     requeue |-> None]

\* The run c of a handler becomes the state.
Commit(c, pod, uid) ==
    /\ c.err # OutOfBound
    /\ eips' = c.w.eips
    /\ pods' = c.w.pods
    /\ addrs' = c.w.addrs
    /\ nUid' = c.w.nUid
    /\ nAlloc' = c.w.nAlloc
    /\ last' = [ev |-> c.ev, pod |-> pod, uid |-> uid,
                res |-> IF c.err = None THEN "ok" ELSE c.err,
                calls |-> c.calls, writes |-> c.writes, requeue |-> requeue_after(c)]
    /\ UNCHANGED <<nExternal, cfgNamespace, upgrade, sweep, matching>>

\* The requeue as a Duration.  thread_rng().gen_range(low..high) gives some
\* number of the half-open range: the draw r of the generator, reduced into it.
RngDraws == {0, 1, 119, 120, 3999, 4000, 7999}

\* A variant whose range includes its upper end.
gen_range_inclusive(low, high, r) == low + (r % (high - low + 1))

gen_range(low, high, r) == low + (r % (high - low))

\* Duration::from_secs and Duration::from_millis, a Duration being a number
\* of milliseconds.
from_secs(n) == n * 1000
from_millis(n) == n

\* Option<Duration>.
NoDuration == [some |-> FALSE, millis |-> 0]
SomeDuration(d) == [some |-> TRUE, millis |-> d]

\* ReconcilerAction.requeue_after of a run, r being the draw of the generator:
\* of apply_pod and apply_eip when the run succeeded, of cleanup_pod,
\* cleanup_eip and finalizer() when it succeeded, of on_error when it failed.
requeue_duration(c, r) ==
    IF requeue_after(c) = RequeueSteady THEN SomeDuration(from_secs(gen_range(240, 360, r)))
    ELSE IF requeue_after(c) = RequeueBackoff
         THEN SomeDuration(from_millis(gen_range(4000, 8000, r)))
    ELSE NoDuration

\* The run c of a handler becomes the state, its requeue a Duration.
CommitTimed(c, pod, uid, r) ==
    /\ c.err # OutOfBound
    /\ eips' = c.w.eips
    /\ pods' = c.w.pods
    /\ addrs' = c.w.addrs
    /\ nUid' = c.w.nUid
    /\ nAlloc' = c.w.nAlloc
    /\ last' = [ev |-> c.ev, pod |-> pod, uid |-> uid,
                res |-> IF c.err = None THEN "ok" ELSE c.err,
                calls |-> c.calls, writes |-> c.writes, requeue |-> requeue_after(c),
                after |-> requeue_duration(c, r)]
    /\ UNCHANGED <<nExternal, cfgNamespace, upgrade, sweep, matching>>

\* The controllers watch one namespace when NAMESPACE is set, all otherwise.
Watched(ns) == cfgNamespace = None \/ ns = cfgNamespace

Init ==
    /\ eips = [u \in Uids |-> NoEip]
    /\ pods = [p \in PodNames |-> NoPod]
    /\ addrs = [a \in AllocIds |-> NoAddr]
    /\ nUid = 0
    /\ nAlloc = 0
    /\ nExternal = 0
    /\ cfgNamespace = None
    /\ last = EnvLast
    /\ upgrade = NoUpgrade
    /\ sweep = NoSweep
    /\ matching = NoMatching

\* run(): the sweep at process start, before the controllers run.
Startup ==
    \E f \in SweepFaults :
        Commit(cleanup_orphan_eips(Event(Ctx(World), "cleanup_orphan_eips"),
                                   ClusterName, cfgNamespace, f), None, 0)

\* A variant that selects the pods of the legacy manage label as well.
SelectedLegacyToo(pod) == pod.manage \/ pod.legacy_manage

\* ListParams::default().labels(MANAGE_EIP_LABEL): the pods the pod controller
\* watches.
Selected(pod) == pod.manage

\* The pod controller reconciles a pod that carries the manage label.
ReconcilePodUnder(F) ==
    \E p \in PodNames, f \in F :
        /\ pods[p].live
        /\ Selected(pods[p])
        /\ Watched(pods[p].ns)
        /\ \E c \in {reconcile_pod(World, p, f)} : Commit(c, p, 0)

ReconcilePod == ReconcilePodUnder(PodFaults)

\* The same, every call succeeding.
ReconcilePodOk == ReconcilePodUnder({NoFault})

\* The Eip controller reconciles the Eip with uid u.
ReconcileEipOf(u, F) ==
    \E f \in F :
        /\ eips[u].live
        /\ Watched(eips[u].ns)
        /\ \E c \in {eip_controller(World, u, ClusterName, f)} : Commit(c, None, u)

\* The Eip controller reconciles an Eip.
ReconcileEipUnder(F) == \E u \in Uids : ReconcileEipOf(u, F)

ReconcileEip == ReconcileEipUnder(EipFaults)

\* The same, every call succeeding.
ReconcileEipOk == ReconcileEipUnder({NoFault})

\* The environment: users and the scheduler act on pods and Eips.
Env(e2, p2, a2) ==
    /\ eips' = e2
    /\ pods' = p2
    /\ addrs' = a2
    /\ last' = EnvLast
    /\ UNCHANGED <<cfgNamespace, upgrade, sweep, matching>>

CreatePod ==
    \E p \in PodNames, kind \in PodKinds :
        /\ ~pods[p].live
        /\ Env(eips, [pods EXCEPT ![p] = NewPod(p, kind)], addrs)
        /\ UNCHANGED <<nUid, nAlloc, nExternal>>

SchedulePod ==
    \E p \in PodNames, ip \in PodIps :
        /\ pods[p].live
        /\ ~pods[p].deleting
        /\ pods[p].pod_ip = None
        /\ Env(eips, [pods EXCEPT ![p].node_name = NodeName, ![p].pod_ip = ip], addrs)
        /\ UNCHANGED <<nUid, nAlloc, nExternal>>

DeletePod ==
    \E p \in PodNames :
        /\ pods[p].live
        /\ ~pods[p].deleting
        /\ Env(eips, [pods EXCEPT ![p] = SettlePod([@ EXCEPT !.deleting = TRUE])], addrs)
        /\ UNCHANGED <<nUid, nAlloc, nExternal>>

\* A pod goes away without its cleanup (its finalizers stripped, or the object
\* removed by force), as when it is replaced under the same name.
ForceDeletePod ==
    \E p \in PodNames :
        /\ pods[p].live
        /\ pods[p].finalizers # <<>>
        /\ Env(eips, [pods EXCEPT ![p] = NoPod], addrs)
        /\ UNCHANGED <<nUid, nAlloc, nExternal>>

CreateEipIn(nss, pod_names) ==
    \E ns \in nss, name \in UserEipNames, pod_name \in pod_names :
        /\ nUid < MaxUid
        /\ EipByName(World, ns, name) = 0
        /\ Env([eips EXCEPT ![nUid + 1] = NewEip(ns, name, pod_name, nUid + 1)], pods, addrs)
        /\ nUid' = nUid + 1
        /\ UNCHANGED <<nAlloc, nExternal>>

CreateEip == CreateEipIn(Namespaces, SpecPodNames)

\* A user creates an Eip for a pod of the pods' namespace.
CreateEipForPod == CreateEipIn({PodNamespace}, PodNames)

\* A user creates an Eip in any namespace.
CreateEipInNamespace == CreateEipIn(Namespaces, PodNames)

DeleteEip ==
    \E u \in Uids :
        /\ eips[u].live
        /\ ~eips[u].deleting
        /\ Env([eips EXCEPT ![u] = SettleEip([@ EXCEPT !.deleting = TRUE])], pods, addrs)
        /\ UNCHANGED <<nUid, nAlloc, nExternal>>

\* A user points the spec of an Eip at another pod.
EditEipSpec ==
    \E u \in Uids, pod_name \in SpecPodNames :
        /\ eips[u].live
        /\ eips[u].pod_name # pod_name
        /\ Env([eips EXCEPT ![u].pod_name = pod_name], pods, addrs)
        /\ UNCHANGED <<nUid, nAlloc, nExternal>>

\* A user strips the finalizers of an Eip and deletes it.
ForceDeleteEip ==
    \E u \in Uids :
        /\ eips[u].live
        /\ eips[u].finalizers # <<>>
        /\ Env([eips EXCEPT ![u] = NoEip], pods, addrs)
        /\ UNCHANGED <<nUid, nAlloc, nExternal>>

\* An address allocated out of band.
AllocateExternal(tags) ==
    /\ nAlloc < MaxAlloc
    /\ nExternal < MaxExternal
    /\ Env(eips, pods, [addrs EXCEPT ![nAlloc + 1] = NewAddr(tags)])
    /\ nAlloc' = nAlloc + 1
    /\ nExternal' = nExternal + 1
    /\ UNCHANGED nUid

\* A second address that carries the tags the controller gives the address of
\* a live Eip (allocated by hand, or by a reconcile that did not see the first).
AllocateDuplicate ==
    \E u \in Uids :
        /\ eips[u].live
        /\ AllocateExternal([cluster |-> ClusterName, legacy |-> None,
                             uid |-> u, ns |-> eips[u].ns])

\* An address with any tags: the cluster under the current or the legacy key
\* or both, any uid handed out so far or none, a namespace (with the current
\* key) or none.
ExternalTags ==
    {t \in [cluster : {None, ClusterName}, legacy : {None, ClusterName},
            uid : 0..nUid, ns : {None} \cup Namespaces] :
        /\ t.cluster # None \/ t.legacy # None
        /\ t.cluster = None <=> t.ns = None}

AllocateTagged == \E tags \in ExternalTags : AllocateExternal(tags)

\* A pod the operator's older version managed.
CreateLegacyPod ==
    \E p \in PodNames :
        /\ ~pods[p].live
        /\ Env(eips, [pods EXCEPT ![p] = NewPod(p, LegacyPodKind)], addrs)
        /\ UNCHANGED <<nUid, nAlloc, nExternal>>

\* A pod that carries neither manage label.
UnmanagedPodKind == PodKind(FALSE, FALSE, "true", NoEniAnnotation, <<>>)

CreateUnmanagedPod ==
    \E p \in PodNames :
        /\ ~pods[p].live
        /\ Env(eips, [pods EXCEPT ![p] = NewPod(p, UnmanagedPodKind)], addrs)
        /\ UNCHANGED <<nUid, nAlloc, nExternal>>

\* A user puts the manage label on a pod, or takes it off.
LabelPod ==
    \E p \in PodNames, manage \in BOOLEAN :
        /\ pods[p].live
        /\ pods[p].manage # manage
        /\ Env(eips, [pods EXCEPT ![p].manage = manage], addrs)
        /\ UNCHANGED <<nUid, nAlloc, nExternal>>

\* An address is bound to a network interface out of band, or by a pod
\* reconcile the specification at hand leaves out.
ExternalAssociate ==
    \E a \in AllocIds :
        /\ addrs[a].live
        /\ addrs[a].eni = None
        /\ Env(eips, pods, associate_eip_with_pod_eni(World, a, "eniP", "ip1").addrs)
        /\ UNCHANGED <<nUid, nAlloc, nExternal>>

ExternalRelease ==
    \E a \in AllocIds :
        /\ addrs[a].live
        /\ Env(eips, pods, [addrs EXCEPT ![a] = NoAddr])
        /\ UNCHANGED <<nUid, nAlloc, nExternal>>

\* The Eip controller alone, with users and the cloud acting on Eips and
\* addresses.
NextEip ==
    \/ ReconcileEip
    \/ CreateEip
    \/ DeleteEip
    \/ ForceDeleteEip
    \/ AllocateDuplicate
    \/ ExternalAssociate
    \/ ExternalRelease

SpecEip == Init /\ [][NextEip]_vars

\* The pod controller, with the Eip controller that allocates for it.
NextPod ==
    \/ ReconcilePod
    \/ ReconcileEipOk
    \/ CreatePod
    \/ SchedulePod
    \/ DeletePod
    \/ CreateEipForPod
    \/ DeleteEip
    \/ ExternalAssociate
    \/ ExternalRelease

SpecPod == Init /\ [][NextPod]_vars

\* The sweep at process start, over the Eips, the addresses (tagged by the
\* controller or by hand) and the legacy pods it can meet, with NAMESPACE unset
\* or set.
InitSweep ==
    /\ eips = [u \in Uids |-> NoEip]
    /\ pods = [p \in PodNames |-> NoPod]
    /\ addrs = [a \in AllocIds |-> NoAddr]
    /\ nUid = 0
    /\ nAlloc = 0
    /\ nExternal = 0
    /\ cfgNamespace \in {None, PodNamespace}
    /\ last = EnvLast
    /\ upgrade = NoUpgrade
    /\ sweep = NoSweep
    /\ matching = NoMatching

NextSweep ==
    \/ Startup
    \/ ReconcileEipOk
    \/ CreateEipInNamespace
    \/ ForceDeleteEip
    \/ AllocateTagged
    \/ ExternalAssociate
    \/ CreateLegacyPod

SpecSweep == InitSweep /\ [][NextSweep]_vars

\* The selector engine asked about every Eip selector over the label keys and
\* values of the model, against every labelling of the nodes.
MatchEips ==
    {[selector |-> PodSelector(pod_name)] : pod_name \in {"p1", "p2"}}
        \cup {[selector |-> NodeSelector(selector)] : selector \in LabelMaps}

InitMatch ==
    /\ eips = [u \in Uids |-> NoEip]
    /\ pods = [p \in PodNames |-> NoPod]
    /\ addrs = [a \in AllocIds |-> NoAddr]
    /\ nUid = 0
    /\ nAlloc = 0
    /\ nExternal = 0
    /\ cfgNamespace = None
    /\ last = EnvLast
    /\ upgrade = NoUpgrade
    /\ sweep = NoSweep
    /\ \E eip \in MatchEips, nodes \in [Range(MatchNodeNames) -> LabelMaps] :
          matching = [eip |-> eip, nodes |-> nodes, op |-> "none", arg |-> None,
                      res |-> None]

MatchFrame ==
    UNCHANGED <<eips, pods, addrs, nUid, nAlloc, nExternal, cfgNamespace, last, upgrade, sweep>>

MatchesPod ==
    /\ \E pod_name \in {"p1", "p2", "p3"} :
          matching' = [matching EXCEPT !.op = "matches_pod", !.arg = pod_name,
                                       !.res = matches_pod(matching.eip, pod_name)]
    /\ MatchFrame

MatchesNode ==
    /\ \E node_labels \in LabelMaps :
          matching' = [matching EXCEPT !.op = "matches_node", !.arg = node_labels,
                                       !.res = matches_node(matching.eip, node_labels)]
    /\ MatchFrame

\* A reconcile of the Eip lists the nodes, in some order, and takes its target.
TargetNode ==
    /\ \E listing \in {MatchNodeNames, <<MatchNodeNames[2], MatchNodeNames[1]>>} :
          matching' = [matching EXCEPT !.op = "target_node",
                                       !.arg = [listing |-> listing, nodes |-> matching.nodes],
                                       !.res = target_node(matching.eip, matching.nodes,
                                                           listing)]
    /\ MatchFrame

\* The labels of a node change.
RelabelNode ==
    /\ \E name \in Range(MatchNodeNames), node_labels \in LabelMaps :
          /\ matching.nodes[name] # node_labels
          /\ matching' = [matching EXCEPT !.nodes[name] = node_labels]
    /\ MatchFrame

NextMatch ==
    \/ MatchesPod
    \/ MatchesNode
    \/ TargetNode
    \/ RelabelNode

SpecMatch == InitMatch /\ [][NextMatch]_vars

\* The controllers with the requeue each run asks for.
ReconcilePodTimed ==
    \E p \in PodNames, f \in PodFaults, r \in RngDraws :
        /\ pods[p].live
        /\ Selected(pods[p])
        /\ Watched(pods[p].ns)
        /\ \E c \in {reconcile_pod(World, p, f)} : CommitTimed(c, p, 0, r)

ReconcileEipTimed ==
    \E u \in Uids, f \in EipFaults, r \in RngDraws :
        /\ eips[u].live
        /\ Watched(eips[u].ns)
        /\ \E c \in {eip_controller(World, u, ClusterName, f)} : CommitTimed(c, None, u, r)

NextRequeue ==
    \/ ReconcilePodTimed
    \/ ReconcileEipTimed
    \/ CreatePod
    \/ SchedulePod
    \/ DeletePod

SpecRequeue == Init /\ [][NextRequeue]_vars

\* The removal of legacy finalizers at startup, step by step.
SweepFrame ==
    UNCHANGED <<eips, addrs, nUid, nAlloc, nExternal, cfgNamespace, upgrade, matching>>

SweepListLegacyPods ==
    /\ sweep.res = NotRun
    /\ \E fails \in BOOLEAN :
          sweep' = IF fails THEN [sweep EXCEPT !.res = "Kube", !.status = 500]
                   ELSE [sweep EXCEPT !.res = "running", !.i = 1,
                                      !.listed = ListLegacyPods(World, cfgNamespace)]
    /\ UNCHANGED <<pods, last>>
    /\ SweepFrame

SweepRemoveLegacyFinalizer ==
    /\ sweep.res = "running"
    /\ \E fails \in BOOLEAN :
          LET done == remove_legacy_finalizer(sweep, pods, fails)
          IN /\ sweep' = done.sweep
             /\ pods' = done.pods
             /\ last' = [EnvLast EXCEPT !.ev = "cleanup_orphan_eips",
                                        !.res = IF done.sweep.res = "Kube" THEN "Kube" ELSE "ok"]
    /\ SweepFrame

\* Another controller or a user changes the finalizers of a pod: one is taken
\* off, or one is put in front.
EditFinalizers ==
    /\ sweep.edits < MaxFinalizerEdits
    /\ \E p \in PodNames :
          /\ pods[p].live
          /\ \E fs \in {RemoveAt(pods[p].finalizers, j) : j \in DOMAIN pods[p].finalizers}
                       \cup {<<"new/finalizer">> \o pods[p].finalizers} :
                /\ Len(fs) <= 3
                /\ pods' = [pods EXCEPT ![p] = SettlePod([@ EXCEPT !.finalizers = fs])]
    /\ sweep' = [sweep EXCEPT !.edits = @ + 1]
    /\ last' = EnvLast
    /\ SweepFrame

CreateLegacyPodOfKind ==
    \E p \in PodNames, fs \in LegacyFinalizerLists :
        /\ ~pods[p].live
        /\ sweep.res = NotRun
        /\ pods' = [pods EXCEPT ![p] = NewPod(p, [LegacyPodKind EXCEPT !.finalizers = fs])]
        /\ last' = EnvLast
        /\ UNCHANGED sweep
        /\ SweepFrame

NextLegacy ==
    \/ SweepListLegacyPods
    \/ SweepRemoveLegacyFinalizer
    \/ EditFinalizers
    \/ CreateLegacyPodOfKind
    \/ DeletePod

SpecLegacy == Init /\ [][NextLegacy]_vars

\* The pod controller and the sweep over pods with and without the manage
\* labels.
NextManage ==
    \/ ReconcilePod
    \/ ReconcileEipOk
    \/ Startup
    \/ CreatePod
    \/ CreateUnmanagedPod
    \/ CreateLegacyPod
    \/ LabelPod
    \/ SchedulePod
    \/ DeletePod

SpecManage == Init /\ [][NextManage]_vars

\* The pod controller, any one write of a run failing, with users creating
\* and deleting pods and editing the Eips made for them.
NextFrame ==
    \/ ReconcilePod
    \/ ReconcileEipOk
    \/ CreatePod
    \/ SchedulePod
    \/ DeletePod
    \/ EditEipSpec

SpecFrame == Init /\ [][NextFrame]_vars

\* The migration at registration of the resource definition, over every list
\* of at most MaxV1 instances.
InitUpgrade ==
    /\ eips = [u \in Uids |-> NoEip]
    /\ pods = [p \in PodNames |-> NoPod]
    /\ addrs = [a \in AllocIds |-> NoAddr]
    /\ nUid = 0
    /\ nAlloc = 0
    /\ nExternal = 0
    /\ cfgNamespace = None
    /\ last = EnvLast
    /\ sweep = NoSweep
    /\ matching = NoMatching
    /\ \E n \in 0..MaxV1 :
          \E listed \in [1..n -> V1Instances] :
              upgrade = [listed |-> listed, res |-> NotRun, replaced |-> <<>>]

UpgradeOldResources ==
    /\ upgrade.res = NotRun
    /\ \E fail_at \in 0..Len(upgrade.listed) :
          LET done == upgrade_old_resources(upgrade.listed, fail_at)
          IN upgrade' = [upgrade EXCEPT !.res = done.res, !.replaced = done.replaced]
    /\ UNCHANGED <<eips, pods, addrs, nUid, nAlloc, nExternal, cfgNamespace, last, sweep,
                   matching>>

NextUpgrade == UpgradeOldResources

SpecUpgrade == InitUpgrade /\ [][NextUpgrade]_vars

\* The migration against a cluster that holds, under each namespace and name,
\* no object, one written through v1 (with or without labels, annotations and
\* the destroy finalizer) or one written through v2, called with no namespace
\* or with one.
StoredAtStart ==
    {NoObject, WrittenAsV1("p1", 1), WithMetadata(WrittenAsV1("p1", 1), SomeMetadata),
     WrittenAsV2(PodSelector("p1"), 1)}

InitMigrate ==
    /\ eips = [u \in Uids |-> NoEip]
    /\ pods = [p \in PodNames |-> NoPod]
    /\ addrs = [a \in AllocIds |-> NoAddr]
    /\ nUid = 0
    /\ nAlloc = 0
    /\ nExternal = 0
    /\ cfgNamespace = None
    /\ last = EnvLast
    /\ sweep = NoSweep
    /\ matching = NoMatching
    /\ \E store \in [MigKeys -> StoredAtStart], namespace \in {None, "ns1"} :
          upgrade = [store |-> store, namespace |-> namespace, listed |-> <<>>, i |-> 0,
                     res |-> NotRun, status |-> 0, replaced |-> <<>>,
                     pass |-> 1, edits |-> 0, first |-> None]

MigrateFrame ==
    UNCHANGED <<eips, pods, addrs, nUid, nAlloc, nExternal, cfgNamespace, last, sweep,
                matching>>

\* upgrade_old_resources up to its loop: the list through the lax API.
MigrateList ==
    /\ upgrade.res = NotRun
    /\ \E fails \in BOOLEAN :
          upgrade' = IF fails THEN [upgrade EXCEPT !.res = "Kube", !.status = 500]
                     ELSE [upgrade EXCEPT !.res = "running", !.i = 1,
                                          !.listed = LaxList(upgrade.store,
                                                             lax_api(upgrade.namespace))]
    /\ MigrateFrame

\* One iteration of the loop, or its end.
MigrateStep ==
    /\ upgrade.res = "running"
    /\ \E fails \in BOOLEAN : upgrade' = upgrade_one(upgrade, fails)
    /\ MigrateFrame

\* Another client updates an object through v1 while the migration runs,
\* leaving its labels, annotations and finalizers as they are.
EditInstance ==
    /\ upgrade.res \in {NotRun, "running"}
    /\ upgrade.edits < MaxEdits
    /\ \E key \in MigKeys :
          /\ upgrade.store[key].live
          /\ upgrade' = [upgrade EXCEPT !.edits = @ + 1,
                                        !.store[key] =
                                            WithMetadata(WrittenAsV1("p2", @.rv + 1), @)]
    /\ MigrateFrame

\* The process starts again and the migration runs once more.
MigrateAgain ==
    /\ upgrade.res \notin {NotRun, "running"}
    /\ upgrade.pass < MaxPass
    /\ upgrade' = [upgrade EXCEPT !.pass = @ + 1, !.res = NotRun, !.status = 0,
                                  !.listed = <<>>, !.i = 0, !.replaced = <<>>,
                                  !.first = [res |-> upgrade.res, store |-> upgrade.store,
                                             replaced |-> upgrade.replaced]]
    /\ MigrateFrame

NextMigrate ==
    \/ MigrateList
    \/ MigrateStep
    \/ EditInstance
    \/ MigrateAgain

SpecMigrate == InitMigrate /\ [][NextMigrate]_vars

\* The pod controller over pods that are replaced under the same name, with
\* another IP or another network interface, while their Eip stays.
NextReplace ==
    \/ ReconcilePod
    \/ ReconcileEipOk
    \/ CreatePod
    \/ SchedulePod
    \/ DeletePod
    \/ ForceDeletePod
    \/ CreateEipForPod

SpecReplace == Init /\ [][NextReplace]_vars

\* Pods and Eips arrive in any order and stay.  Every run of a reconciler on
\* an object that is not being deleted ends with a requeue or changes the
\* object it watches, so the object is reconciled again; a call that fails does
\* not fail forever: the reconcile of each object in which every call succeeds
\* is weakly fair.
NextArrive ==
    \/ ReconcilePod
    \/ ReconcileEipOk
    \/ CreatePod
    \/ SchedulePod
    \/ CreateEipForPod

FairReconciles ==
    /\ WF_vars(ReconcilePodOk)
    /\ \A u \in Uids : WF_vars(ReconcileEipOf(u, {NoFault}))

SpecArrive == Init /\ [][NextArrive]_vars /\ FairReconciles

\* Pods arrive and are deleted again, their Eips autocreated; the reconciles,
\* in which any one call can fail, are fair as above.
NextDepart ==
    \/ ReconcilePod
    \/ ReconcileEip
    \/ CreatePod
    \/ SchedulePod
    \/ DeletePod

SpecDepart == Init /\ [][NextDepart]_vars /\ FairReconciles

\* The address of an Eip is released out of band, while the model has an
\* allocation id left for its replacement.
ReleaseOutOfBand ==
    \E a \in AllocIds :
        /\ addrs[a].live
        /\ nAlloc < MaxAlloc
        /\ Env(eips, pods, [addrs EXCEPT ![a] = NoAddr])
        /\ UNCHANGED <<nUid, nAlloc, nExternal>>

\* The controllers over pods whose address is released out of band.
NextRelease ==
    \/ ReconcilePod
    \/ ReconcileEip
    \/ CreatePod
    \/ SchedulePod
    \/ ReleaseOutOfBand

SpecRelease == Init /\ [][NextRelease]_vars /\ FairReconciles

(***************************************************************************)
(* Vocabulary of the properties.                                           *)
(***************************************************************************)
\* The live addresses that carry the eip-uid tag u.
TaggedIn(ad, u) == {a \in AllocIds : ad[a].live /\ ad[a].tags.uid = u}
TaggedWith(u) == TaggedIn(addrs, u)

\* The calls of that kind the last run issued, and the cloud calls that change
\* the cloud.
Issued(kind) == {i \in DOMAIN last.calls : last.calls[i][1] = kind}
MutationKinds == {"allocate", "associate", "disassociate", "release"}
Mutations == {i \in DOMAIN last.calls : last.calls[i][1] \in MutationKinds}

\* The Eip carries the destroy finalizer.
HasDestroyFinalizer(eip) == eip.live /\ EIP_FINALIZER_NAME \in Range(eip.finalizers)

(***************************************************************************)
(* The Eip reconciler.                                                     *)
(***************************************************************************)
\* C1: an Eip apply issues allocate only when no address carried the Eip's uid
\* tag before it, and no Eip apply (one that fails at the status write after
\* allocating included) raises the number of addresses that carry the uid
\* above one: from none it is at most one afterwards, otherwise it does not grow.
C1_AllocateOnlyFromZero ==
    [][last'.ev = "apply_eip" =>
          LET u == last'.uid
          IN /\ Issued("allocate")' # {} => TaggedWith(u) = {}
             /\ Cardinality(TaggedIn(addrs', u)) <=
                    IF TaggedWith(u) = {} THEN 1 ELSE Cardinality(TaggedWith(u))]_vars

\* An apply allocated, failed at the status write, and the next apply of the
\* same Eip adopted the address: one address carries the uid.
C1_Witness ==
    /\ last.ev = "apply_eip"
    /\ last.res = "ok"
    /\ Issued("allocate") = {}
    /\ Cardinality(TaggedWith(last.uid)) = 1
    /\ eips[last.uid].status.allocation_id \in TaggedWith(last.uid)

\* C2: an Eip apply that finds more than one address tagged with the Eip's uid
\* returns MultipleEipsTaggedForPod, issues no allocate, associate, disassociate
\* or release, writes nothing, and leaves the Eips and the addresses as they were.
C2_MultipleTaggedIsAnError ==
    [][(last'.ev = "apply_eip" /\ Cardinality(TaggedWith(last'.uid)) > 1) =>
          /\ last'.res = "MultipleEipsTaggedForPod"
          /\ Mutations' = {}
          /\ last'.writes = <<>>
          /\ eips' = eips
          /\ addrs' = addrs]_vars

C2_Witness ==
    /\ last.ev = "apply_eip"
    /\ last.res = "MultipleEipsTaggedForPod"
    /\ Cardinality(TaggedWith(last.uid)) = 2

\* C3: a run of the controllers takes the destroy finalizer off an Eip only as
\* the end of a cleanup of that Eip that issued release for every address
\* tagged with its uid (after disassociate for each that was associated), so
\* that none is left; and a cleanup in which a disassociate or a release
\* fails leaves the Eip, finalizer included, as it was.
C3_FinalizerOnlyAfterRelease ==
    [][/\ \A u \in Uids :
            (last'.ev # "env" /\ HasDestroyFinalizer(eips[u]) /\ ~HasDestroyFinalizer(eips'[u])) =>
                /\ last'.ev = "cleanup_eip"
                /\ last'.uid = u
                /\ last'.res = "ok"
                /\ TaggedIn(addrs', u) = {}
                /\ \A a \in TaggedWith(u) :
                      /\ <<"release", a>> \in Range(last'.calls)
                      /\ addrs[a].eni # None => <<"disassociate", a>> \in Range(last'.calls)
       /\ (last'.ev = "cleanup_eip"
             /\ last'.res \in {"AwsDisassociateAddress", "AwsReleaseAddress"}) =>
                eips'[last'.uid] = eips[last'.uid]]_vars

\* A cleanup disassociated and released the address of a deleted Eip and the
\* Eip is gone.
C3_Witness ==
    /\ last.ev = "cleanup_eip"
    /\ last.res = "ok"
    /\ Issued("disassociate") # {}
    /\ Issued("release") # {}
    /\ ~eips[last.uid].live

\* C6, as the specification states it: the sweep runs in the post-hook of every
\* Eip reconcile, so once an Eip reconcile has succeeded no address is left
\* that the controller allocated for an Eip that is gone (no address was
\* allocated by hand: nExternal = 0).
C6_PostHookSweeps ==
    (nExternal = 0 /\ last.ev \in {"apply_eip", "cleanup_eip", "add_eip_finalizer"}
        /\ last.res = "ok") =>
        \A a \in AllocIds :
            addrs[a].live => \E u \in Uids : eips[u].live /\ eips[u].uid = addrs[a].tags.uid

(***************************************************************************)
(* Eip status.                                                             *)
(***************************************************************************)
\* C4: in every state the pod and Eip reconcilers reach, in any interleaving,
\* the status of an Eip has allocation_id and public_ip_address both set or
\* both unset, eni and private_ip_address both set or both unset, and eni set
\* only with allocation_id set.
C4_StatusFieldsPaired ==
    \A u \in Uids :
        eips[u].live =>
            LET status == eips[u].status
            IN /\ (status.allocation_id # 0) <=> (status.public_ip_address # 0)
               /\ (status.eni # None) <=> (status.private_ip_address # None)
               /\ status.eni # None => status.allocation_id # 0

\* A pod apply has written the attachment into a status that held an allocation.
C4_Witness ==
    /\ last.ev = "apply_pod"
    /\ \E i \in DOMAIN last.writes : last.writes[i].kind = "status_attached"
    /\ \E u \in Uids :
          /\ eips[u].live
          /\ eips[u].status.allocation_id # 0
          /\ eips[u].status.eni # None

(***************************************************************************)
(* The pod reconciler.                                                     *)
(***************************************************************************)
\* The Eip a pod apply finds for pod p in the state at hand, 0 for none.
EipOfPod(p) ==
    IF pods[p].live THEN FindEipForPod(World, ListEips(World, pods[p].ns), p) ELSE 0

\* C8: after a successful apply of a pod with IP P, resolved ENI E and Eip with
\* allocation A, the address A is bound to (E, P) and the Eip's status holds
\* eni = E and private_ip_address = P; the apply issued associate, once and
\* for A, exactly when the address was not bound to (E, P) before it.
C8_ApplyBindsAddressToPod ==
    [][(last'.ev = "apply_pod" /\ last'.res = "ok") =>
          LET p == last'.pod
              P == pods[p].pod_ip
              E == resolved_eni_id(pods[p])
              u == EipOfPod(p)
              A == eips[u].status.allocation_id
          IN /\ addrs'[A].live
             /\ addrs'[A].eni = E
             /\ addrs'[A].private_ip = P
             /\ eips'[u].status.eni = E
             /\ eips'[u].status.private_ip_address = P
             /\ \A i \in Issued("associate")' : last'.calls[i] = <<"associate", A>>
             /\ Cardinality(Issued("associate")') =
                    IF addrs[A].eni # E \/ addrs[A].private_ip # P THEN 1 ELSE 0]_vars

\* An apply that found the ENI with describe_instances associated the address.
C8_Witness ==
    /\ last.ev = "apply_pod"
    /\ last.res = "ok"
    /\ Issued("associate") # {}
    /\ get_eni_id_from_annotation(pods[last.pod]) = None
    /\ addrs[eips[EipOfPod(last.pod)].status.allocation_id].eni = "eniA"

\* C9: after a successful pod apply the pod's allocation_id annotation is the
\* allocation id of its Eip, and its external-dns target annotation is the
\* public IP of that address.
C9_ApplyAnnotatesPod ==
    (last.ev = "apply_pod" /\ last.res = "ok") =>
        LET pod == pods[last.pod]
            eip == eips[EipOfPod(last.pod)]
        IN /\ pod.live
           /\ eip.live
           /\ pod.ann_allocation_id = eip.status.allocation_id
           /\ addrs[eip.status.allocation_id].live
           /\ pod.ann_dns_target = PublicIpOf(eip.status.allocation_id)
           /\ pod.ann_dns_target = eip.status.public_ip_address

C9_Witness ==
    /\ last.ev = "apply_pod"
    /\ last.res = "ok"
    /\ pods[last.pod].ann_allocation_id # 0
    /\ pods[last.pod].ann_dns_target = PublicIpOf(pods[last.pod].ann_allocation_id)

\* C10: a pod apply that runs on the state a successful apply of the same pod
\* left issues no allocate, associate, disassociate or release, makes the
\* cluster writes the first one made, and leaves the cluster and the cloud as
\* they were.
C10_ApplyTwiceIsNoOp ==
    (last.ev = "apply_pod" /\ last.res = "ok") =>
        LET again == apply_pod(Event(Ctx(World), "apply_pod"), last.pod, NoFault)
        IN /\ again.err = None
           /\ \A i \in DOMAIN again.calls : again.calls[i][1] \notin MutationKinds
           /\ again.writes = last.writes
           /\ again.w = World

\* The first apply was not a no-op itself: it associated the address of an
\* autocreated Eip.
C10_Witness ==
    /\ last.ev = "apply_pod"
    /\ last.res = "ok"
    /\ Issued("associate") # {}
    /\ should_autocreate_eip(pods[last.pod])
    /\ Len(last.writes) = 3

\* The live Eips of that namespace and name among es.
NamedIn(es, ns, name) == {u \in Uids : es[u].live /\ es[u].ns = ns /\ es[u].name = name}

\* The last run ended at its first cluster write, the apply of the Eip.
FailedAtCreate ==
    /\ last.res = "Kube"
    /\ Len(last.writes) = 1
    /\ last.writes[1].kind = "apply_eip"

\* C12: after a pod apply of a pod whose autocreate label reads "true" in any
\* case (an apply that ends later with an error included, one whose apply of
\* the Eip itself failed excluded), exactly one Eip of the pod's namespace
\* carries the pod's name, and its spec names the pod; an apply that finds such
\* an Eip creates none and leaves it the one it was.
C12_AutocreateEnsuresEip ==
    [][(last'.ev = "apply_pod" /\ pods[last'.pod].autocreate \in {"true", "TRUE"}
          /\ ~FailedAtCreate') =>
          LET p == last'.pod
              before == NamedIn(eips, pods[p].ns, p)
              after == NamedIn(eips', pods[p].ns, p)
          IN /\ Cardinality(after) = 1
             /\ \A u \in after : eips'[u].pod_name = p
             /\ before # {} => (after = before /\ nUid' = nUid)]_vars

\* The apply of a pod labelled "TRUE" ran again after its Eip was allocated.
C12_Witness ==
    /\ last.ev = "apply_pod"
    /\ last.res = "ok"
    /\ pods[last.pod].autocreate = "TRUE"
    /\ nUid = 1
    /\ NamedIn(eips, PodNamespace, last.pod) = {1}
    /\ eips[1].pod_name = last.pod

\* The errors of a pod apply that comes before the Eip or its allocation.
NotReadyErrors == {"NoEipResourceWithThatPodName", "MissingEipStatus", "MissingAllocationId"}

\* Pod p is managed, has its IP and an ENI that resolves, and is not being deleted.
PodReady(p) ==
    /\ pods[p].live
    /\ pods[p].manage
    /\ ~pods[p].deleting
    /\ pods[p].pod_ip # None
    /\ resolved_eni_id(pods[p]) # None

\* The address of the Eip of pod p is bound to the pod's (ENI, IP) pair and the
\* Eip's status says so.
Attached(p) ==
    LET eip == eips[EipOfPod(p)]
        A == eip.status.allocation_id
    IN /\ pods[p].live
       /\ EipOfPod(p) # 0
       /\ A # 0
       /\ addrs[A].live
       /\ addrs[A].eni = resolved_eni_id(pods[p])
       /\ addrs[A].private_ip = pods[p].pod_ip
       /\ eip.status.eni = resolved_eni_id(pods[p])
       /\ eip.status.private_ip_address = pods[p].pod_ip

\* C13: a pod apply that finds no Eip for the pod, or an Eip without an
\* allocation id, ends with an error, changes nothing in the cloud and asks
\* for the backoff requeue (with the pod's IP and ENI resolved and no call
\* failing, the error is one of the not-ready errors); and, the reconciles
\* being fair, a managed pod with an IP and an ENI whose Eip exists, allocated
\* or not, is eventually attached.
C13_NotReadyThenAttached ==
    /\ [][(last'.ev = "apply_pod"
              /\ (EipOfPod(last'.pod) = 0
                    \/ eips[EipOfPod(last'.pod)].status.allocation_id = 0)) =>
              /\ last'.res # "ok"
              /\ Mutations' = {}
              /\ addrs' = addrs
              /\ last'.requeue = RequeueBackoff
              /\ (PodReady(last'.pod) /\ last'.res # "Kube") =>
                    last'.res \in NotReadyErrors]_vars
    /\ \A p \in PodNames : (PodReady(p) /\ EipOfPod(p) # 0) ~> Attached(p)

\* A pod apply met an Eip that has no allocation yet.
C13_Witness ==
    /\ last.ev = "apply_pod"
    /\ last.res = "MissingEipStatus"
    /\ last.requeue = RequeueBackoff
    /\ PodReady(last.pod)
    /\ EipOfPod(last.pod) # 0
    /\ ~Attached(last.pod)

\* Pod p, an autocreate pod attached through the address a of its Eip, is
\* being deleted, and u is the Eip named after it.
Departing(p, u, a) ==
    /\ pods[p].live
    /\ pods[p].deleting
    /\ should_autocreate_eip(pods[p])
    /\ Attached(p)
    /\ a = eips[EipOfPod(p)].status.allocation_id
    /\ eips[u].live
    /\ eips[u].ns = pods[p].ns
    /\ eips[u].name = p

\* C14: the reconciles being fair, once an attached autocreate pod is being
\* deleted, eventually the address it was attached through is disassociated
\* (or released), eventually the pod is gone, and eventually the Eip named
\* after the pod is gone with no address left that carries its uid.
C14_DeletedPodReleasesAddress ==
    \A p \in PodNames, u \in Uids, a \in AllocIds :
        /\ Departing(p, u, a) ~> (~addrs[a].live \/ addrs[a].eni = None)
        /\ Departing(p, u, a) ~> ~pods[p].live
        /\ Departing(p, u, a) ~> (~eips[u].live /\ TaggedWith(u) = {})

\* The cleanup of the Eip named after a pod that is gone released its address.
C14_Witness ==
    /\ last.ev = "cleanup_eip"
    /\ last.res = "ok"
    /\ Issued("release") # {}
    /\ \E i \in DOMAIN last.writes :
          last.writes[i].kind = "remove_finalizer" /\ last.writes[i].name \in PodNames
    /\ \A p \in PodNames : ~pods[p].live
    /\ ~eips[last.uid].live
    /\ TaggedWith(last.uid) = {}

\* The pod carries the pod finalizer.
HasPodFinalizer(pod) == pod.live /\ POD_FINALIZER_NAME \in Range(pod.finalizers)

\* C11: a step of the controllers gives a pod the pod finalizer only as a
\* reconcile of that pod by the pod controller, and only a pod that carried the
\* manage label: a pod without the label never gains the finalizer.
C11_FinalizerOnlyWithManageLabel ==
    [][\A p \in PodNames :
          (~HasPodFinalizer(pods[p]) /\ HasPodFinalizer(pods'[p])) =>
              /\ pods[p].live
              /\ pods[p].manage
              /\ last'.ev = "add_pod_finalizer"
              /\ last'.pod = p]_vars

\* A pod created without the manage label got the finalizer once a user had
\* labelled it.
C11_Witness ==
    /\ last.ev = "add_pod_finalizer"
    /\ last.res = "ok"
    /\ HasPodFinalizer(pods[last.pod])
    /\ pods[last.pod].manage
    /\ pods[last.pod].autocreate = "true"
    /\ pods[last.pod].pod_ip # None

\* The kinds of the cluster writes of the last run, in order.
WriteKinds == [i \in DOMAIN last.writes |-> last.writes[i].kind]

\* C15: a run of the controllers takes the pod finalizer off a pod only as the
\* end of a cleanup of that pod that succeeded: when an Eip names the pod, the
\* address of its allocation is left without association (disassociate having
\* been issued when it had one) and the Eip's status.eni and
\* status.private_ip_address are cleared, and for an autocreate pod the delete
\* of the Eip named after it was issued.  A cleanup that fails leaves the pod
\* with its finalizer and gets the backoff requeue.
C15_PodFinalizerOnlyAfterCleanup ==
    [][/\ \A p \in PodNames :
            (last'.ev # "env" /\ HasPodFinalizer(pods[p]) /\ ~HasPodFinalizer(pods'[p])) =>
                LET u == EipOfPod(p)
                    A == eips[u].status.allocation_id
                IN /\ last'.ev = "cleanup_pod"
                   /\ last'.pod = p
                   /\ last'.res = "ok"
                   /\ u # 0 =>
                         /\ A # 0
                         /\ addrs'[A].live /\ addrs'[A].eni = None
                         /\ addrs[A].eni # None => <<"disassociate", A>> \in Range(last'.calls)
                         /\ "status_detached" \in Range(WriteKinds')
                         /\ eips'[u].live =>
                               /\ eips'[u].status.eni = None
                               /\ eips'[u].status.private_ip_address = None
                   /\ should_autocreate_eip(pods[p]) =>
                         /\ \E i \in DOMAIN last'.writes :
                               /\ last'.writes[i].kind = "delete_eip"
                               /\ last'.writes[i].name = p
                         /\ \A v \in NamedIn(eips', pods[p].ns, p) : eips'[v].deleting
       /\ (last'.ev = "cleanup_pod" /\ last'.res # "ok") =>
             /\ pods'[last'.pod] = pods[last'.pod]
             /\ HasPodFinalizer(pods'[last'.pod])
             /\ last'.requeue = RequeueBackoff]_vars

\* A cleanup disassociated the address of an autocreate pod, cleared the
\* status, deleted the Eip, and the pod is gone.
C15_Witness ==
    /\ last.ev = "cleanup_pod"
    /\ last.res = "ok"
    /\ Issued("disassociate") # {}
    /\ WriteKinds = <<"status_detached", "delete_eip", "remove_finalizer">>
    /\ ~pods[last.pod].live

\* The last run ended with an error at its status write or its annotation write.
FailedAtLateWrite ==
    /\ last.res = "Kube"
    /\ last.writes # <<>>
    /\ last.writes[Len(last.writes)].kind \in {"status_attached", "annotate_pod"}

\* C16: when a pod apply fails at the Eip status write or at the annotation
\* write, that is with the address bound to the pod's pair (by its own
\* associate or before it), the next apply of the pod on the state it left
\* succeeds, issues no associate, writes the status and the annotations, and
\* reaches the state an apply without the failure would have reached.
C16_NextApplyCompletes ==
    [][(last'.ev = "apply_pod" /\ FailedAtLateWrite') =>
          LET p == last'.pod
              next == apply_pod(Event(Ctx(World'), "apply_pod"), p, NoFault)
              whole == apply_pod(Event(Ctx(World), "apply_pod"), p, NoFault)
          IN /\ next.err = None
             /\ \A i \in DOMAIN next.calls : next.calls[i][1] \notin MutationKinds
             /\ \E i, j \in DOMAIN next.writes :
                   /\ next.writes[i].kind = "status_attached"
                   /\ next.writes[j].kind = "annotate_pod"
             /\ whole.err = None
             /\ next.w = whole.w]_vars

\* An apply associated the address and failed at the status write.
C16_Witness ==
    /\ last.ev = "apply_pod"
    /\ FailedAtLateWrite
    /\ Issued("associate") # {}
    /\ last.writes[Len(last.writes)].kind = "status_attached"
    /\ ~Attached(last.pod)

\* The Eip of pod p records an attachment to another (ENI, IP) pair than the
\* pod's, and its address is bound to that other pair.
AttachedElsewhere(p) ==
    LET eip == eips[EipOfPod(p)]
        A == eip.status.allocation_id
    IN /\ PodReady(p)
       /\ EipOfPod(p) # 0
       /\ A # 0
       /\ addrs[A].live
       /\ eip.status.eni # None
       /\ addrs[A].eni = eip.status.eni
       /\ addrs[A].private_ip = eip.status.private_ip_address
       /\ <<addrs[A].eni, addrs[A].private_ip>> #
              <<resolved_eni_id(pods[p]), pods[p].pod_ip>>

SpecOf(eip) == <<eip.ns, eip.name, eip.uid, eip.pod_name>>

\* C17, as the specification states it: every cluster write of a run of the
\* pod reconciler is a write of an Eip's status, of the pod's annotations or
\* of the pod's finalizers.
C17_PodReconcilerWritesStatusOnly ==
    [][last'.pod # None =>
          \A i \in DOMAIN last'.writes :
              last'.writes[i].kind \in {"status_attached", "status_detached", "annotate_pod",
                                        "add_finalizer", "remove_finalizer"}]_vars

\* C17, amended: besides the status of an Eip and the annotations and the
\* finalizer of its pod, a run of the pod reconciler writes only the Eip named
\* after the pod, and only for an autocreate pod: the apply that creates it
\* with the pod's name as its spec, and its delete.  It changes the spec of no
\* Eip that exists, creates no other Eip, and writes no other pod.
C17_PodReconcilerWritesOwnEipOnly ==
    [][last'.pod # None =>
          LET p == last'.pod
          IN /\ \A i \in DOMAIN last'.writes :
                   LET wr == last'.writes[i]
                   IN \/ wr.kind \in {"status_attached", "status_detached"}
                      \/ /\ wr.kind \in {"annotate_pod", "add_finalizer", "remove_finalizer"}
                         /\ wr.name = p
                      \/ /\ wr.kind \in {"apply_eip", "delete_eip"}
                         /\ should_autocreate_eip(pods[p])
                         /\ wr.ns = pods[p].ns
                         /\ wr.name = p
                         /\ wr.kind = "apply_eip" => wr.s1 = p
             /\ \A u \in Uids :
                   /\ (eips[u].live /\ eips'[u].live) => SpecOf(eips'[u]) = SpecOf(eips[u])
                   /\ (~eips[u].live /\ eips'[u].live) =>
                         /\ should_autocreate_eip(pods[p])
                         /\ SpecOf(eips'[u]) = <<pods[p].ns, p, u, p>>
                   /\ (eips[u].live /\ ~eips'[u].live) =>
                         (should_autocreate_eip(pods[p]) /\ eips[u].name = p)
             /\ \A q \in PodNames \ {p} : pods'[q] = pods[q]]_vars

\* An apply of an autocreate pod met the Eip named after it with a spec a user
\* had pointed at another pod, and left it so.
C17_Witness ==
    /\ last.ev = "apply_pod"
    /\ last.res = "Kube"
    /\ WriteKinds = <<"apply_eip">>
    /\ \E u \in NamedIn(eips, PodNamespace, last.pod) : eips[u].pod_name # last.pod

\* C18: a run of the Eip reconciler, apply or cleanup, writes no pod, issues
\* no associate and binds no address; its cluster writes are the Eip's own
\* finalizer and the status write of allocation_id and public_ip_address, and
\* status.eni and status.private_ip_address of every Eip stay as they were.
C18_EipReconcilerNeverAttaches ==
    [][last'.uid # 0 =>
          /\ pods' = pods
          /\ Issued("associate")' = {}
          /\ \A i \in DOMAIN last'.writes :
                /\ last'.writes[i].kind \in {"status_created", "add_finalizer", "remove_finalizer"}
                /\ last'.writes[i].name = eips[last'.uid].name
                /\ last'.writes[i].ns = eips[last'.uid].ns
          /\ \A u \in Uids :
                (eips[u].live /\ eips'[u].live) =>
                    /\ eips'[u].status.eni = eips[u].status.eni
                    /\ eips'[u].status.private_ip_address = eips[u].status.private_ip_address
                    /\ SpecOf(eips'[u]) = SpecOf(eips[u])
          /\ \A a \in AllocIds :
                addrs'[a].live =>
                    \/ addrs'[a].eni = None
                    \/ /\ addrs[a].live
                       /\ addrs'[a].eni = addrs[a].eni
                       /\ addrs'[a].private_ip = addrs[a].private_ip]_vars

\* An Eip apply wrote the status of an Eip that a pod is attached to.
C18_Witness ==
    /\ last.ev = "apply_eip"
    /\ last.res = "ok"
    /\ WriteKinds = <<"status_created">>
    /\ eips[last.uid].status.eni # None
    /\ eips[last.uid].status.private_ip_address # None

(***************************************************************************)
(* The migration.                                                          *)
(***************************************************************************)
\* The v1 instance has a pod_name and a name.
Convertible(eip_v1) == eip_v1.pod_name # None /\ eip_v1.name # None
Nameless(eip_v1) == eip_v1.pod_name # None /\ eip_v1.name = None

\* The index of the first listed instance with a pod_name and no name, or one
\* past the list.
FirstNameless ==
    LET bad == {i \in DOMAIN upgrade.listed : Nameless(upgrade.listed[i])}
    IN IF bad = {} THEN Len(upgrade.listed) + 1
       ELSE CHOOSE i \in bad : \A j \in bad : i <= j

\* C20: converting a v1 instance that has a pod_name and a name gives a v2 Eip
\* of that name, with selector Pod of that pod_name and with that
\* resource_version; an instance without pod_name gives none and no error; an
\* instance with pod_name and without name gives MissingEipName.  A migration
\* that has run replaced v2 objects only for instances with a pod_name, each
\* the conversion of its instance, in the order listed; it ended with
\* MissingEipName exactly when it came to an instance with pod_name and
\* without name, having replaced nothing from that instance on.
C20_UpgradeConvertsPodName ==
    /\ \A i \in DOMAIN upgrade.listed :
          LET eip_v1 == upgrade.listed[i]
              converted == try_from(eip_v1)
          IN /\ Convertible(eip_v1) =>
                   /\ converted.ok
                   /\ converted.eip.name = eip_v1.name
                   /\ converted.eip.selector.kind = "Pod"
                   /\ converted.eip.selector.pod_name = eip_v1.pod_name
                   /\ converted.eip.resource_version = eip_v1.resource_version
             /\ eip_v1.pod_name = None => (~converted.ok /\ converted.err = None)
             /\ Nameless(eip_v1) => (~converted.ok /\ converted.err = "MissingEipName")
    /\ upgrade.res # NotRun =>
          LET reached == SelectSeq(SubSeq(upgrade.listed, 1, FirstNameless - 1), Convertible)
              n == Len(upgrade.replaced)
          IN /\ n <= Len(reached)
             /\ \A k \in 1..n :
                   /\ upgrade.replaced[k].eip.name = reached[k].name
                   /\ upgrade.replaced[k].eip.selector = PodSelector(reached[k].pod_name)
                   /\ upgrade.replaced[k].eip.resource_version = reached[k].resource_version
             /\ upgrade.res = "ok" =>
                   (n = Len(reached) /\ FirstNameless > Len(upgrade.listed))
             /\ upgrade.res = "MissingEipName" =>
                   (n = Len(reached) /\ FirstNameless <= Len(upgrade.listed))
             /\ (upgrade.res = "Kube") = (n < Len(reached))

\* A migration replaced one instance, skipped none, and stopped at an instance
\* without a name.
C20_Witness ==
    /\ upgrade.res = "MissingEipName"
    /\ Len(upgrade.listed) = 2
    /\ Len(upgrade.replaced) = 1
    /\ upgrade.replaced[1].eip.selector = PodSelector("p1")
    /\ upgrade.replaced[1].eip.resource_version = "rv7"

\* The stored object still has the v1 shape: a spec.podName and no selector.
StillV1(obj) == obj.live /\ obj.pod_name # None

\* C21: once a migration called with no namespace has returned Ok, no other
\* writer having touched the objects, no object of any namespace still has
\* the v1 shape: each that had a pod_name has been rewritten.
C21_EveryNamespaceUpgraded ==
    (upgrade.res = "ok" /\ upgrade.namespace = None /\ upgrade.edits = 0) =>
        \A key \in MigKeys : ~StillV1(upgrade.store[key])

\* The keys of the objects a pass replaced.
ReplacedKeys(replaced) == {<<replaced[k].ns, replaced[k].eip.name>> : k \in DOMAIN replaced}

\* C22: in a second run of the migration, no other writer having touched the
\* objects, every object the first run replaced stays as the first run left
\* it; and after a first run that returned Ok, the namespace listed holds no
\* object with a pod_name, the second run replaces nothing and every object
\* is as the first run left it, resource version included.
C22_SecondPassChangesNothing ==
    (upgrade.pass = 2 /\ upgrade.edits = 0) =>
        /\ \A key \in ReplacedKeys(upgrade.first.replaced) :
              upgrade.store[key] = upgrade.first.store[key]
        /\ upgrade.first.res = "ok" =>
              /\ upgrade.replaced = <<>>
              /\ upgrade.store = upgrade.first.store
              /\ \A key \in MigKeys :
                    key[1] = lax_api(upgrade.namespace) => ~StillV1(upgrade.store[key])

\* A first run replaced two objects and returned Ok, and a second run has
\* listed them again and come to its end.
C22_Witness ==
    /\ upgrade.pass = 2
    /\ upgrade.edits = 0
    /\ upgrade.first.res = "ok"
    /\ Len(upgrade.first.replaced) = 2
    /\ upgrade.res = "ok"
    /\ Len(upgrade.listed) = 2

\* The key of the instance the loop of the migration has come to.
CurrentKey == <<ApiNamespace(upgrade.listed[upgrade.i].namespace),
                upgrade.listed[upgrade.i].name>>

\* The loop has come to an instance with a pod_name that another writer has
\* updated since it was listed.
AtStaleInstance ==
    /\ upgrade.res = "running"
    /\ upgrade.i <= Len(upgrade.listed)
    /\ Convertible(upgrade.listed[upgrade.i])
    /\ upgrade.store[CurrentKey].rv # upgrade.listed[upgrade.i].resource_version

\* C23: the iteration of the migration on an instance that was updated after
\* the list replaces nothing: the stored objects stay as they are, the update
\* of the other writer included, and the migration ends with the error of the
\* replace, which is a 409 Conflict unless the call itself failed; and a
\* migration that has ended with an error does nothing more in that run.
C23_StaleReplaceRejected ==
    [][/\ (AtStaleInstance /\ upgrade'.edits = upgrade.edits) =>
              /\ upgrade'.store = upgrade.store
              /\ upgrade'.replaced = upgrade.replaced
              /\ upgrade'.res = "Kube"
              /\ upgrade'.status \in {409, 500}
       /\ (upgrade.res = "Kube" /\ upgrade'.pass = upgrade.pass) => upgrade' = upgrade
      ]_vars

\* The migration ended with a conflict on an instance it had listed with
\* pod_name p1, which still holds the pod_name p2 another writer gave it.
C23_Witness ==
    /\ upgrade.res = "Kube"
    /\ upgrade.status = 409
    /\ upgrade.i <= Len(upgrade.listed)
    /\ upgrade.listed[upgrade.i].pod_name = "p1"
    /\ upgrade.store[CurrentKey].pod_name = "p2"
    /\ upgrade.store[CurrentKey].selector = None

(***************************************************************************)
(* The orphan sweep.                                                       *)
(***************************************************************************)
\* The address carries this cluster's name under the current or the legacy key.
CarriesClusterTag(a) ==
    /\ addrs[a].live
    /\ addrs[a].tags.cluster = ClusterName \/ addrs[a].tags.legacy = ClusterName

\* The address is one the sweep's two queries return: this cluster's name under
\* the current key (and NAMESPACE under the namespace key, when NAMESPACE is
\* set) or under the legacy key.
InSweepQueries(a) ==
    /\ addrs[a].live
    /\ \/ /\ addrs[a].tags.cluster = ClusterName
          /\ cfgNamespace # None => addrs[a].tags.ns = cfgNamespace
       \/ addrs[a].tags.legacy = ClusterName

\* The eip-uid tag of the address is missing or is the uid of no Eip the sweep
\* lists (the Eips of NAMESPACE when it is set, all Eips otherwise).
NamesNoListedEip(a) ==
    \/ addrs[a].tags.uid = 0
    \/ \A u \in Uids :
          (eips[u].live /\ (cfgNamespace = None \/ eips[u].ns = cfgNamespace)) =>
              eips[u].uid # addrs[a].tags.uid

C7_SweepSparesOtherNamespaces ==
    [][(last'.ev = "cleanup_orphan_eips" /\ cfgNamespace # None) =>
          \A a \in AllocIds, u \in Uids :
              (/\ addrs[a].live
               /\ eips[u].live
               /\ eips[u].uid = addrs[a].tags.uid
               /\ eips[u].ns # cfgNamespace
               /\ addrs[a].tags.ns \in {None, eips[u].ns}) =>
                  <<"release", a>> \notin Range(last'.calls)]_vars

(***************************************************************************)
(* The removal of legacy finalizers.                                       *)
(***************************************************************************)
\* The loop over legacy_pods has come to a pod that was listed with the legacy
\* finalizer.
AtLegacyPod ==
    /\ sweep.res = "running"
    /\ sweep.i <= Len(sweep.listed)
    /\ Position(sweep.listed[sweep.i].finalizers, LEGACY_POD_FINALIZER_NAME) # 0
\* The pod it has come to, the index the finalizer was listed at, and whether
\* the finalizers stored now hold the legacy finalizer at that index.
ListedName == sweep.listed[sweep.i].name
ListedPosition == Position(sweep.listed[sweep.i].finalizers, LEGACY_POD_FINALIZER_NAME)
StillAtPosition ==
    /\ pods[ListedName].live
    /\ ListedPosition <= Len(pods[ListedName].finalizers)
    /\ pods[ListedName].finalizers[ListedPosition] = LEGACY_POD_FINALIZER_NAME
\* The step is one of the sweep, not of another writer.
SweepStep == sweep' # sweep /\ sweep'.edits = sweep.edits

\* C24: the patch for a pod listed with the legacy finalizer at an index
\* changes the pod only if the finalizers stored hold the legacy finalizer at
\* that index, and then takes off exactly that element; if they do not, the
\* pods stay as they are and the sweep ends with the error of the patch; and
\* a sweep that has ended with an error patches nothing more.
C24_TestThenRemove ==
    [][/\ (AtLegacyPod /\ SweepStep) =>
              /\ pods' # pods =>
                    /\ StillAtPosition
                    /\ pods' = [pods EXCEPT ![ListedName] =
                                    SettlePod([@ EXCEPT !.finalizers =
                                                   RemoveAt(@, ListedPosition)])]
              /\ ~StillAtPosition =>
                    /\ pods' = pods
                    /\ sweep'.res = "Kube"
                    /\ last'.res = "Kube"
       /\ sweep.res = "Kube" =>
              ([sweep' EXCEPT !.edits = sweep.edits] = sweep /\ last'.ev = "env")
      ]_vars

\* The sweep ended with the patch of a pod failing its test: the pod was
\* listed with the legacy finalizer second, another writer took the first
\* finalizer off, and the legacy finalizer is still on the pod.
C24_Witness ==
    /\ sweep.res = "Kube"
    /\ sweep.status = 422
    /\ sweep.listed[sweep.i].finalizers = <<"other/finalizer", LEGACY_POD_FINALIZER_NAME>>
    /\ pods[sweep.listed[sweep.i].name].live
    /\ pods[sweep.listed[sweep.i].name].finalizers = <<LEGACY_POD_FINALIZER_NAME>>

(***************************************************************************)
(* The selector engine.                                                    *)
(***************************************************************************)
\* C25: matches_pod(name) is TRUE exactly when the selector is Pod and its
\* pod_name is the name; an Eip with a Node selector matches no pod name, an
\* Eip with a Pod selector matches no label set, and both answers are the
\* boolean FALSE, not an error.
C25_MatchesVariantOnly ==
    /\ matching.op = "matches_pod" =>
          /\ matching.res \in BOOLEAN
          /\ matching.res = (/\ matching.eip.selector.kind = "Pod"
                             /\ matching.eip.selector.pod_name = matching.arg)
          /\ matching.eip.selector.kind = "Node" => matching.res = FALSE
    /\ (matching.op = "matches_node" /\ matching.eip.selector.kind = "Pod") =>
          matching.res = FALSE

\* An Eip with a Node selector whose map is empty was asked about a pod name.
C25_Witness ==
    /\ matching.op = "matches_pod"
    /\ matching.eip.selector = NodeSelector(EmptyMap)
    /\ matching.arg = "p1"
    /\ matching.res = FALSE

\* The label map holds every key of the selector with the selector's value.
Superset(node_labels, selector) ==
    \A key \in Range(LabelKeys) : selector[key] # None => node_labels[key] = selector[key]

\* C26: for an Eip with a Node selector, matches_node(labels) is TRUE exactly
\* when labels holds every key of the selector with an equal value; an empty
\* selector matches every label map.
C26_MatchesNodeIsSuperset ==
    (matching.op = "matches_node" /\ matching.eip.selector.kind = "Node") =>
        /\ matching.res = Superset(matching.arg, matching.eip.selector.selector)
        /\ matching.eip.selector.selector = EmptyMap => matching.res = TRUE

\* A selector on one key matched a node that carries that label and another.
C26_Witness ==
    /\ matching.op = "matches_node"
    /\ matching.eip.selector = NodeSelector([k1 |-> "a", k2 |-> None])
    /\ matching.arg = [k1 |-> "a", k2 |-> "b"]
    /\ matching.res = TRUE

\* The nodes, as labelled, whose labels hold every label of the Eip's Node
\* selector, by their place in the order of names.
MatchingNodes(eip, nodes) ==
    {i \in DOMAIN MatchNodeNames :
        eip.selector.kind = "Node" /\ Superset(nodes[MatchNodeNames[i]], eip.selector.selector)}

Unparseable(pod) == pod.live /\ pod.eni_annotation.present /\ ~pod.eni_annotation.parses

\* C28: an apply of a pod whose pod-eni annotation is present and does not
\* parse ends in an error and issues no associate.
C28_UnparseableAnnotationIsAnError ==
    (last.ev = "apply_pod" /\ Unparseable(pods[last.pod])) =>
        (last.res # "ok" /\ Issued("associate") = {})

(***************************************************************************)
(* Adoption.                                                               *)
(***************************************************************************)
\* The status of the Eip with uid u holds the allocation id and the public IP
\* of the one address tagged with u.
StatusReflectsTagged(u) ==
    /\ eips[u].live
    /\ Cardinality(TaggedWith(u)) = 1
    /\ eips[u].status.allocation_id \in TaggedWith(u)
    /\ eips[u].status.public_ip_address = PublicIpOf(eips[u].status.allocation_id)

\* C29: an Eip apply that finds exactly one address tagged with the Eip's uid
\* issues no allocate, and writes nothing if the status already held the
\* allocation id and the public IP of that address.
C29_AdoptWritesNothingWhenCurrent ==
    [][(last'.ev = "apply_eip" /\ Cardinality(TaggedWith(last'.uid)) = 1) =>
          /\ Issued("allocate")' = {}
          /\ StatusReflectsTagged(last'.uid) => last'.writes = <<>>]_vars

(***************************************************************************)
(* The destroy finalizer comes first.                                      *)
(***************************************************************************)
\* C30: a reconcile of an Eip that is not being deleted and does not carry
\* the destroy finalizer only adds the finalizer: it issues no cloud call that
\* changes the cloud, its one write is the patch that adds the finalizer, and
\* the addresses and the status of the Eip stay as they were; and every run
\* that issues allocate is an apply of an Eip that carried the finalizer
\* before the run.
C30_FinalizerBeforeAllocate ==
    [][/\ (last'.uid # 0 /\ ~eips[last'.uid].deleting
              /\ ~HasDestroyFinalizer(eips[last'.uid])) =>
              /\ last'.ev = "add_eip_finalizer"
              /\ Mutations' = {}
              /\ addrs' = addrs
              /\ \A i \in DOMAIN last'.writes : last'.writes[i].kind = "add_finalizer"
              /\ Len(last'.writes) = 1
              /\ eips'[last'.uid].status = eips[last'.uid].status
              /\ last'.res = "ok" => HasDestroyFinalizer(eips'[last'.uid])
              /\ last'.requeue = IF last'.res = "ok" THEN None ELSE RequeueBackoff
       /\ (last'.ev # "env" /\ Issued("allocate")' # {}) =>
              /\ last'.ev = "apply_eip"
              /\ HasDestroyFinalizer(eips[last'.uid])
      ]_vars

\* An apply allocated an address for an Eip that an earlier reconcile had
\* given the finalizer.
C30_Witness ==
    /\ last.ev = "apply_eip"
    /\ last.res = "ok"
    /\ Issued("allocate") # {}
    /\ HasDestroyFinalizer(eips[last.uid])
    /\ TaggedWith(last.uid) # {}

(***************************************************************************)
(* Requeue intervals.                                                      *)
(***************************************************************************)
\* C31: a pod apply or an Eip apply that succeeds asks for a requeue after a
\* whole number of seconds from 240 up to and not including 360; a run that
\* ends in an error is requeued after a number of milliseconds from 4000 up
\* to and not including 8000; a pod cleanup or an Eip cleanup that succeeds
\* asks for no requeue.
C31_RequeueIntervals ==
    last.ev # "env" =>
        /\ (last.ev \in {"apply_pod", "apply_eip"} /\ last.res = "ok") =>
              /\ last.after.some
              /\ (last.after.millis % 1000) = 0
              /\ 240 * 1000 <= last.after.millis
              /\ last.after.millis < 360 * 1000
        /\ last.res # "ok" =>
              /\ last.after.some
              /\ 4000 <= last.after.millis
              /\ last.after.millis < 8000
        /\ (last.ev \in {"cleanup_pod", "cleanup_eip"} /\ last.res = "ok") => ~last.after.some

\* An Eip apply succeeded and asked for the longest requeue, 359 seconds.
C31_Witness ==
    /\ last.ev = "apply_eip"
    /\ last.res = "ok"
    /\ last.after = SomeDuration(359000)

(***************************************************************************)
(* The network interface of a pod.                                         *)
(***************************************************************************)
\* The pod-eni annotation of the pod parses to a list that is not empty.
AnnotationNamesEni(pod) ==
    pod.eni_annotation.present /\ pod.eni_annotation.parses /\ pod.eni_annotation.enis # <<>>

\* The interfaces of the pod's instance that hold the pod's IP, by their place
\* in the description of the instance.
InterfacesWithPodIp(pod) ==
    LET nics == NetworkInterfaces(InstanceIdOf(ProviderId(pod.node_name)))
    IN {i \in DOMAIN nics : \E k \in DOMAIN nics[i].ips : nics[i].ips[k] = pod.pod_ip}

\* The interface the pod is to be attached through, where there is one.
ExpectedEni(pod) ==
    IF AnnotationNamesEni(pod) THEN pod.eni_annotation.enis[1]
    ELSE LET nics == NetworkInterfaces(InstanceIdOf(ProviderId(pod.node_name)))
             hits == InterfacesWithPodIp(pod)
         IN nics[CHOOSE i \in hits : \A j \in hits : i <= j].id

\* The writes of the last run that record an attachment.
AttachWrites ==
    {i \in DOMAIN last.writes : last.writes[i].kind \in {"status_attached", "annotate_pod"}}

\* C32: a pod apply associates, and records in the status, the first eniId of
\* the pod-eni annotation when the annotation parses to a list that is not
\* empty, and otherwise the first interface of the pod's instance that holds
\* the pod's IP; when the annotation names none and no interface holds that
\* IP, the apply ends in an error, which is NoInterfaceWithThatIp unless an
\* earlier call failed, and issues no associate and writes neither status nor
\* annotations.
C32_EniFromAnnotationElseByIp ==
    [][last'.ev = "apply_pod" =>
          LET pod == pods[last'.pod]
              named == AnnotationNamesEni(pod) \/ InterfacesWithPodIp(pod) # {}
          IN /\ \A i \in DOMAIN last'.calls :
                    last'.calls[i][1] = "associate" =>
                        /\ named
                        /\ addrs'[last'.calls[i][2]].eni = ExpectedEni(pod)
                        /\ addrs'[last'.calls[i][2]].private_ip = pod.pod_ip
             /\ \A i \in DOMAIN last'.writes :
                    last'.writes[i].kind = "status_attached" =>
                        /\ named
                        /\ last'.writes[i].s1 = ExpectedEni(pod)
                        /\ last'.writes[i].s2 = pod.pod_ip
             /\ (~named /\ pod.pod_ip # None /\ pod.node_name # None) =>
                    /\ last'.res \in {"NoInterfaceWithThatIp", "Kube", "AwsDescribeInstances"}
                    /\ Issued("associate")' = {}
                    /\ AttachWrites' = {}
             /\ last'.res = "NoInterfaceWithThatIp" =>
                    /\ ~named
                    /\ Issued("associate")' = {}
                    /\ AttachWrites' = {}]_vars

\* An apply attached a pod through the first interface its annotation names.
C32_Witness ==
    /\ last.ev = "apply_pod"
    /\ last.res = "ok"
    /\ Issued("associate") # {}
    /\ pods[last.pod].eni_annotation.enis = <<"eniP", "eniQ">>
    /\ \E i \in DOMAIN last.writes :
          last.writes[i].kind = "status_attached" /\ last.writes[i].s1 = "eniP"

(***************************************************************************)
(* An address released out of band.                                        *)
(***************************************************************************)
\* The status of the Eip with uid u names an address that is gone, and no
\* address carries the uid.
AddressGone(u) ==
    /\ eips[u].live
    /\ eips[u].status.allocation_id # 0
    /\ ~addrs[eips[u].status.allocation_id].live
    /\ TaggedWith(u) = {}

\* C33: an Eip apply that finds the address of the status gone and none tagged
\* with the uid allocates a new address, tagged with the uid, and, unless
\* its status write fails, leaves the status with the new allocation id and
\* public IP; and, the reconciles being fair, a managed pod with an IP and
\* an ENI whose Eip lost its address is eventually attached again, through an
\* address that exists.
C33_ReleasedAddressIsReplaced ==
    /\ [][(last'.ev = "apply_eip" /\ AddressGone(last'.uid)) =>
              /\ <<"allocate", nAlloc'>> \in Range(last'.calls)
              /\ nAlloc' = nAlloc + 1
              /\ TaggedIn(addrs', last'.uid) = {nAlloc'}
              /\ last'.res = "ok" =>
                    /\ eips'[last'.uid].status.allocation_id = nAlloc'
                    /\ eips'[last'.uid].status.allocation_id # eips[last'.uid].status.allocation_id
                    /\ eips'[last'.uid].status.public_ip_address = PublicIpOf(nAlloc')]_vars
    /\ \A p \in PodNames :
          (PodReady(p) /\ EipOfPod(p) # 0 /\ AddressGone(EipOfPod(p))) ~> Attached(p)

\* A pod is attached through the second address of its Eip, the first being
\* gone.
C33_Witness ==
    \E p \in PodNames :
        /\ Attached(p)
        /\ eips[EipOfPod(p)].status.allocation_id = 2
        /\ ~addrs[1].live
        /\ nAlloc = 2

(***************************************************************************)
(* The cleanup of a pod whose Eip has no allocation, or that has no Eip.   *)
(***************************************************************************)
\* The pod p is due for cleanup: it is being deleted and holds the finalizer.
CleanupDue(p) == pods[p].live /\ pods[p].deleting /\ HasPodFinalizer(pods[p])

\* The Eip of the pod p has no status, or a status without allocation id.
EipWithoutAllocation(p) ==
    /\ EipOfPod(p) # 0
    /\ ~eips[EipOfPod(p)].status.present \/ eips[EipOfPod(p)].status.allocation_id = 0

\* C34: the cleanup of a pod whose Eip has no status or no allocation id ends
\* in an error, having issued no cloud call and no write: the Eips are as
\* they were, none deleted and no status cleared, and the pod keeps its
\* finalizer.  The cleanup of a pod that no Eip names issues no cloud call,
\* and succeeds unless a Kubernetes request of its own fails.
C34_CleanupWithoutAllocation ==
    [][\A p \in PodNames :
          (last'.ev = "cleanup_pod" /\ last'.pod = p /\ CleanupDue(p)) =>
              /\ EipWithoutAllocation(p) =>
                    /\ last'.res \in {"MissingEipStatus", "MissingAllocationId", "Kube"}
                    /\ reconcile_pod(World, p, NoFault).err \in
                           {"MissingEipStatus", "MissingAllocationId"}
                    /\ last'.calls = <<>>
                    /\ last'.writes = <<>>
                    /\ eips' = eips
                    /\ pods' = pods
                    /\ HasPodFinalizer(pods'[p])
              /\ EipOfPod(p) = 0 =>
                    /\ last'.calls = <<>>
                    /\ last'.res \in {"ok", "Kube", "RemoveFinalizer"}
                    /\ reconcile_pod(World, p, NoFault).err = None
                    /\ last'.res = "ok" => ~HasPodFinalizer(pods'[p])]_vars

\* A cleanup failed on an Eip without status, and the pod kept its finalizer.
C34_Witness ==
    /\ last.ev = "cleanup_pod"
    /\ last.res = "MissingEipStatus"
    /\ CleanupDue(last.pod)
    /\ EipWithoutAllocation(last.pod)

(***************************************************************************)
(* The addresses the sweep keeps.                                          *)
(***************************************************************************)
\* The eip-uid tag of the address a is the uid of an Eip of the sweep's list.
NamesListedEip(a) ==
    /\ addrs[a].live
    /\ get_tag_from_address(addrs[a], EIP_UID_TAG) # 0
    /\ get_tag_from_address(addrs[a], EIP_UID_TAG) \in SweepEipUids(World, cfgNamespace)

\* C35: a run of the sweep, failed or not, issues neither release nor
\* disassociate for an address whose eip-uid tag is the uid of an Eip its own
\* list returned, and leaves the address as it was, whichever cluster tag key
\* the address was found under and whatever its namespace tag.
C35_SweepKeepsListedEips ==
    [][last'.ev = "cleanup_orphan_eips" =>
          \A a \in AllocIds :
              NamesListedEip(a) =>
                  /\ <<"release", a>> \notin Range(last'.calls)
                  /\ <<"disassociate", a>> \notin Range(last'.calls)
                  /\ addrs'[a] = addrs[a]]_vars

\* A sweep released an address and kept one that carries the legacy cluster
\* tag alone and the uid of a listed Eip.
C35_Witness ==
    /\ last.ev = "cleanup_orphan_eips"
    /\ last.res = "ok"
    /\ Issued("release") # {}
    /\ \E a \in AllocIds :
          /\ NamesListedEip(a)
          /\ get_tag_from_address(addrs[a], CLUSTER_NAME_TAG) = None
          /\ get_tag_from_address(addrs[a], LEGACY_CLUSTER_NAME_TAG) = ClusterName

(***************************************************************************)
(* The metadata of a migrated object.                                      *)
(***************************************************************************)
\* The iteration of the migration on the instance the loop has come to has
\* replaced it.
Replaces ==
    /\ upgrade.res = "running"
    /\ upgrade'.res = "running"
    /\ upgrade'.i = upgrade.i + 1
    /\ Len(upgrade'.replaced) = Len(upgrade.replaced) + 1

\* C36: the v2 object the migration sends with replace has the name and the
\* resource_version of the v1 instance it was listed as, the selector of its
\* pod_name, and no labels, annotations or finalizers; and the object stored
\* after the replace has none either, whatever the v1 instance carried, the
\* destroy finalizer included.
C36_ReplaceKeepsNameAndVersionOnly ==
    [][Replaces =>
          LET eip_v1 == upgrade.listed[upgrade.i]
              sent == upgrade'.replaced[Len(upgrade'.replaced)].eip
              stored == upgrade'.store[CurrentKey]
          IN /\ sent.name = eip_v1.name
             /\ sent.resource_version = eip_v1.resource_version
             /\ sent.selector = PodSelector(eip_v1.pod_name)
             /\ sent.labels = {} /\ sent.annotations = {} /\ sent.finalizers = <<>>
             /\ stored.live
             /\ stored.selector = sent.selector
             /\ stored.labels = {} /\ stored.annotations = {} /\ stored.finalizers = <<>>
      ]_vars

\* The migration has replaced an instance it had listed with labels,
\* annotations and the destroy finalizer, and the stored object has none.
C36_Witness ==
    /\ upgrade.res \in {"running", "ok"}
    /\ upgrade.edits = 0
    /\ upgrade.pass = 1
    /\ upgrade.i = 2
    /\ Len(upgrade.replaced) = 1
    /\ upgrade.listed[1].finalizers = <<EIP_FINALIZER_NAME>>
    /\ upgrade.listed[1].labels # {}
    /\ upgrade.listed[1].annotations # {}
    /\ upgrade.store[<<ApiNamespace(upgrade.listed[1].namespace),
                       upgrade.listed[1].name>>].finalizers = <<>>

====
